---------------------------- MODULE Spec2Model ----------------------------
(***************************************************************************)
(* The plan-graph completion engine of                                     *)
(* skills/recursive-planning-spec/scripts/verify_and_repair_planning.py:   *)
(* PlanGraph (the file-backed store and its in-memory copy) and            *)
(* VerifyAndRepair (gap analysis, delta bundle A-F, apply, proofs and the  *)
(* pass loop), followed by main()'s exit code.                             *)
(*                                                                         *)
(* Representation.                                                         *)
(*  - A node id is a sequence of text pieces ("scenario:", "a",            *)
(*    "-baseline"); str.replace, str.split and the f-strings of the code   *)
(*    act on the pieces.                                                   *)
(*  - A statement is a sequence of phrases; Mentions gives the lower-case  *)
(*    keywords a phrase contains, which is all the code asks of a          *)
(*    statement ("kw" in stmt.lower()).                                    *)
(*  - A node is a record with the attributes the engine reads or writes;   *)
(*    an absent attribute has the value dict.get() defaults to.            *)
(*  - Python dicts are objects: a delta holds a reference to its node.  A  *)
(*    delta whose node is the very object held in graph.nodes is marked    *)
(*    ref, and a later in-place mutation of that object shows in it.       *)
(***************************************************************************)
EXTENDS Integers, Sequences, FiniteSets, TLC

VARIABLES
    disk,            \* the store: [files: file key -> node record, edgelog: Seq(edge)]
    graph,           \* PlanGraph in memory: [nodes, node_by_type, edges]
    gaps,            \* self.S0, R0, C0, IX_orphan, API_weak, Q_open
    deltas,          \* self.deltas
    changed_nodes,   \* self.changed_nodes
    iteration,       \* local of verify_and_repair
    all_passing,     \* local of verify_and_repair
    proofs,          \* local of verify_and_repair; Unbound until first assigned
    prev_gaps,       \* local of verify_and_repair
    max_iterations,  \* argument of verify_and_repair
    output,          \* what verify_and_repair returned (or NoOutput)
    exit_code,       \* the process's exit status (-1 while running)
    pc,              \* position in verify_and_repair / main
    run,             \* which invocation of the program this is
    hist             \* observations of the run (no effect on the program)

vars == <<disk, graph, gaps, deltas, changed_nodes, iteration, all_passing, proofs,
          prev_gaps, max_iterations, output, exit_code, pc, run, hist>>

-----------------------------------------------------------------------------
(* Bounds of the model *)

MaxBudget == 2          \* max_iterations ranges over 0..MaxBudget and the default
MaxRuns == 2            \* the program is invoked at most this many times on a store
MaxExternalWrites == 1  \* writes by another process during the runs (SpecExt)

(* verify_and_repair(self, max_iterations: int = 10) *)
DefaultMaxIterations == 10

(* proofs['P10'] = covered >= 14 *)
P10Floor == 14
(* if field_count >= 4 *)
P3Floor == 4
(* if missing_count >= 2 *)
ApiWeakFloor == 2

-----------------------------------------------------------------------------
(* Sequence helpers *)

Range(s) == {s[i] : i \in 1..Len(s)}

RECURSIVE SetToSeqs(_)
(* all orders in which a set may be iterated *)
SetToSeqs(S) ==
    IF S = {} THEN {<<>>}
    ELSE UNION {{<<x>> \o t : t \in SetToSeqs(S \ {x})} : x \in S}

-----------------------------------------------------------------------------
(* Text pieces of ids *)

(* s.replace(old, "") where old is one piece *)
RECURSIVE Remove(_, _)
Remove(id, piece) ==
    IF id = <<>> THEN <<>>
    ELSE (IF Head(id) = piece THEN <<>> ELSE <<Head(id)>>) \o Remove(Tail(id), piece)

(* piece.replace(":", "-") *)
ColonToHyphen(t) ==
    CASE t = "scenario:" -> "scenario-"
      [] t \in {"req:", "req&"} -> "req-"
      [] t = "change:" -> "change-"
      [] t = "ix:" -> "ix-"
      [] t = "test:" -> "test-"
      [] t = "component:" -> "component-"
      [] t = "contract:api-" -> "contract-api-"
      [] t = "contract:data-" -> "contract-data-"
      [] t = "question:" -> "question-"
      [] OTHER -> t

ReplaceColons(id) == [i \in 1..Len(id) |-> ColonToHyphen(id[i])]

(* "api" in piece.lower(), "data" in piece.lower() *)
PieceHasApi(t) ==
    t \in {"contract:api-", "contract-api-", "-api-create-fresh-under-ok",
           "-api-read-fresh-under-ok", "-api-update-fresh-under-ok",
           "-api-delete-fresh-under-ok"}
PieceHasData(t) == t \in {"contract:data-", "contract-data-"}

HasApi(id) == \E i \in 1..Len(id) : PieceHasApi(id[i])
HasData(id) == \E i \in 1..Len(id) : PieceHasData(id[i])

(* the text of a piece before its first "-" (the piece itself when it has none) *)
BeforeHyphen(t) ==
    CASE t \in {"-baseline", "-api-create-fresh-under-ok", "-acc", "-auto", "-orphan", "-read",
                "-api-read-fresh-under-ok", "-api-update-fresh-under-ok",
                "-api-delete-fresh-under-ok", "-functional"} -> ""
      [] t = "contract:api-" -> "contract:api"
      [] t = "contract:data-" -> "contract:data"
      [] t \in {"contract-api-", "contract-data-"} -> "contract"
      [] t = "scenario-" -> "scenario"
      [] t = "req-" -> "req"
      [] t = "change-" -> "change"
      [] t = "ix-" -> "ix"
      [] t = "test-" -> "test"
      [] t = "component-" -> "component"
      [] t = "question-" -> "question"
      [] OTHER -> t

HasHyphen(t) == BeforeHyphen(t) # t

RECURSIVE FirstSegment(_)
(* s.split('-')[0] *)
FirstSegment(id) ==
    IF id = <<>> THEN <<>>
    ELSE IF HasHyphen(Head(id))
         THEN (IF BeforeHyphen(Head(id)) = "" THEN <<>> ELSE <<BeforeHyphen(Head(id))>>)
         ELSE <<Head(id)>> \o FirstSegment(Tail(id))


(* len(piece) *)
PieceLen(t) ==
    CASE t = "a" -> 1
      [] t = "b" -> 1
      [] t = "slug-of-200-characters" -> 200
      [] t \in {"scenario:", "scenario-"} -> 9
      [] t \in {"req:", "req-", "req&"} -> 4
      [] t \in {"change:", "change-"} -> 7
      [] t \in {"ix:", "ix-"} -> 3
      [] t \in {"test:", "test-"} -> 5
      [] t \in {"component:", "component-"} -> 10
      [] t \in {"contract:api-", "contract-api-"} -> 13
      [] t \in {"contract:data-", "contract-data-"} -> 14
      [] t \in {"question:", "question-"} -> 9
      [] t = "-baseline" -> 9
      [] t = "-api-create-fresh-under-ok" -> 26
      [] t = "-api-read-fresh-under-ok" -> 24
      [] t = "-api-update-fresh-under-ok" -> 26
      [] t = "-api-delete-fresh-under-ok" -> 26
      [] t = "-functional" -> 11
      [] t = "-acc" -> 4
      [] t = "-auto" -> 5
      [] t = "-read" -> 5
      [] t = "-orphan" -> 7
      [] OTHER -> 1

RECURSIVE TextLen(_)
TextLen(id) == IF id = <<>> THEN 0 ELSE PieceLen(Head(id)) + TextLen(Tail(id))

-----------------------------------------------------------------------------
(* Statements *)

CoreAreas ==
    {"identity", "users", "preferences", "navigation", "connectivity", "data-storage",
     "caching", "queues", "secrets", "observability", "analytics", "feature-flags",
     "security", "i18n", "notifications", "payments"}

DataFields == {"schema", "migration", "retention", "pii", "region", "index", "backup", "restore"}

(* the lower-case keywords that occur in a phrase *)
Mentions(phrase) ==
    CASE phrase = "API contract for" -> {"api"}
      [] phrase = "(AUTHZ scopes, RATE LIMIT quota tier, IDEMPOTENCY key, TIMEOUTS ms, ERROR TAXONOMY codes, OBSERVABILITY logs/metrics/spans)"
            -> {"authz", "auth", "rate", "quota", "idempotency", "timeout", "error",
                "taxonomy", "observability", "log", "metric"}
      [] phrase = "Data contract for" -> {"data"}
      [] phrase = "(schema, migration, retention, PII, region, index, backup, restore)"
            -> DataFields
      [] phrase = "Logical component for" -> {"log"}
      [] phrase = "Create operation via API" -> {"api"}
      [] phrase = "Read operation via API" -> {"api", "read"}
      [] phrase = "Update operation via API" -> {"api"}
      [] phrase = "Delete operation via API" -> {"api", "delete"}
      [] phrase = "schema defined" -> {"schema"}
      [] phrase = "indices defined" -> {"indices"}
      [] phrase = "migration/backfill defined" -> {"migration", "backfill"}
      [] phrase = "retention defined" -> {"retention"}
      [] phrase = "region/PII defined" -> {"region", "pii"}
      [] phrase = "(versioning: semver:minor)" -> {"version"}
      [] phrase = "AUTHZ(scopes)" -> {"authz", "auth"}
      [] phrase = "RATE LIMIT(quota tier)" -> {"rate", "quota"}
      [] phrase = "IDEMPOTENCY(key)" -> {"idempotency"}
      [] phrase = "TIMEOUTS(ms)" -> {"timeout"}
      [] phrase = "ERROR TAXONOMY(codes)" -> {"error", "taxonomy"}
      [] phrase = "OBSERVABILITY(logs/metrics/spans)" -> {"observability", "log", "metric"}
      [] phrase = "authZ and timeouts" -> {"authz", "auth", "timeout"}
      [] phrase = "idempotent retries with auth" -> {"idempotent", "auth"}
      [] phrase = "identity users preferences navigation connectivity data-storage caching queues secrets observability analytics feature-flags security i18n"
            -> (CoreAreas \ {"notifications", "payments"}) \cup {"data"}
      [] phrase \in {"contract:api-", "contract-api-", "-api-create-fresh-under-ok"} -> {"api"}
      [] phrase \in {"contract:data-", "contract-data-"} -> {"data"}
      [] OTHER -> {}

(* kw in stmt.lower() *)
Says(stmt, kw) == \E i \in 1..Len(stmt) : kw \in Mentions(stmt[i])

-----------------------------------------------------------------------------
(* Nodes *)

NodeTypes ==
    {"Scenario", "Requirement", "Contract", "Component", "ChangeSpec",
     "InteractionSpec", "Test", "OpenQuestion", "Evaluation"}

(* a node dict with the given id and type and no other attribute the engine reads;
   boolean fields stand for the truthiness of the attribute *)
BlankNode(id, type) ==
    [id |-> id, type |-> type, stmt |-> <<>>, status |-> "Open",
     requirements |-> <<>>, change_specs |-> <<>>, contracts |-> <<>>,
     components |-> <<>>, ix |-> <<>>, implements |-> <<>>, depends_on |-> <<>>,
     tests |-> <<>>, simple |-> FALSE, versioning |-> FALSE, rollout_flag |-> FALSE,
     observability |-> FALSE, obs |-> FALSE, sec |-> FALSE,
     test |-> [mocks |-> FALSE, acc |-> FALSE], extra |-> <<>>]

-----------------------------------------------------------------------------
(* PlanGraph: the store and its in-memory copy *)

(* safe_filename = node_id.replace(':', '-').replace('/', '-').replace('&', '-');
   over 200 characters: safe_filename[:180] + "-" + md5(safe_filename)[:8].
   A name is [kept: the pieces that lie inside the cut, cut: characters kept of the
   next piece, md5: what the digest was taken of (<<>> when not truncated)]. *)
RECURSIVE KeptPieces(_, _)
KeptPieces(s, room) ==
    IF s = <<>> \/ PieceLen(Head(s)) > room THEN <<>>
    ELSE <<Head(s)>> \o KeptPieces(Tail(s), room - PieceLen(Head(s)))

SafeFilename(node_id) ==
    LET safe == ReplaceColons(node_id) IN
    IF TextLen(safe) > 200
    THEN LET kept == KeptPieces(safe, 180) IN
         [kept |-> kept, cut |-> 180 - TextLen(kept), md5 |-> safe]
    ELSE [kept |-> safe, cut |-> 0, md5 |-> <<>>]

(* node_file = nodes_dir / node["type"] / f"{safe_filename}.json" *)
NodeFile(node_id, node) == <<node.type, SafeFilename(node_id)>>

(* json.dump(node, f) to node_file *)
WriteFile(files, node_id, node) ==
    LET k == NodeFile(node_id, node) IN
    [x \in DOMAIN files \cup {k} |-> IF x = k THEN node ELSE files[x]]

(* PlanGraph.save_node: write the file, then nodes[node_id] = node and
   node_by_type[node_type].add(node_id) *)
SaveNode(st, node_id, node) ==
    [files |-> WriteFile(st.files, node_id, node),
     nodes |-> [x \in DOMAIN st.nodes \cup {node_id} |->
                   IF x = node_id THEN node ELSE st.nodes[x]],
     node_by_type |-> [st.node_by_type EXCEPT ![node.type] = @ \cup {node_id}]]

RECURSIVE NodeMaps(_, _)
(* the dicts self.nodes can be after reading every file: when two files carry the
   same id the one read last stays, and glob gives no order *)
NodeMaps(files, ids) ==
    IF ids = {} THEN {<<>>}
    ELSE LET id == CHOOSE x \in ids : TRUE
             cand == {files[k] : k \in {x \in DOMAIN files : files[x].id = id}}
         IN {[x \in DOMAIN m \cup {id} |-> IF x = id THEN n ELSE m[x]] :
                m \in NodeMaps(files, ids \ {id}), n \in cand}

(* PlanGraph.load: clear, read every node file of every type directory (a node
   without id is skipped), read the edge log *)
Load(d) ==
    LET read == {k \in DOMAIN d.files : d.files[k].id # <<>>}
        ids == {d.files[k].id : k \in read}
    IN {[nodes |-> m,
         node_by_type |-> [t \in NodeTypes |-> {d.files[k].id : k \in {x \in read : x[1] = t}}],
         edges |-> d.edgelog] : m \in NodeMaps(d.files, ids)}

(* get_node / has_node / get_nodes_by_type / get_edges_from / get_edges_to *)
HasNode(nodes, node_id) == node_id \in DOMAIN nodes

NodesByType(g, node_type) == {g.nodes[nid] : nid \in g.node_by_type[node_type] \cap DOMAIN g.nodes}

IdsByType(g, node_type) == g.node_by_type[node_type] \cap DOMAIN g.nodes

EdgesFrom(g, node_id) == {e \in Range(g.edges) : e.from = node_id}

EdgesTo(g, node_id, edge_type) == {e \in Range(g.edges) : e.to = node_id /\ e.type = edge_type}

IsType(g, node_id, node_type) == HasNode(g.nodes, node_id) /\ g.nodes[node_id].type = node_type

-----------------------------------------------------------------------------
(* VerifyAndRepair._compute_sets *)

(* all_ix of a ChangeSpec: cs["ix"] and the sources of depends_on edges into it that
   are InteractionSpec nodes; valid_ix: those that exist *)
ValidIx(g, cs_id) ==
    {ix_id \in Range(g.nodes[cs_id].ix)
        \cup {e.from : e \in {x \in EdgesTo(g, cs_id, "depends_on") :
                                  IsType(g, x.from, "InteractionSpec")}} :
        HasNode(g.nodes, ix_id)}

(* all_cs of a Requirement in the S0 walk: req["change_specs"] and the targets of
   implements edges leaving it that are ChangeSpec nodes *)
ChangeSpecsOfReqS0(g, req_id) ==
    Range(g.nodes[req_id].change_specs)
        \cup {e.to : e \in {x \in EdgesFrom(g, req_id) :
                                x.type = "implements" /\ IsType(g, x.to, "ChangeSpec")}}

(* ix_count == 0: no requirement of the scenario leads to a valid ix *)
ComputeS0(g) ==
    {sc.id : sc \in {x \in NodesByType(g, "Scenario") :
        ~ \E req_id \in Range(x.requirements) :
            /\ HasNode(g.nodes, req_id)
            /\ \E cs_id \in ChangeSpecsOfReqS0(g, req_id) :
                  HasNode(g.nodes, cs_id) /\ ValidIx(g, cs_id) # {}}}

(* all_contracts, all_components (depends_on edges leaving the requirement) and
   all_change_specs (implements edges entering it) *)
AllContracts(g, req_id) ==
    Range(g.nodes[req_id].contracts)
        \cup {e.to : e \in {x \in EdgesFrom(g, req_id) :
                                x.type = "depends_on" /\ IsType(g, x.to, "Contract")}}

AllComponents(g, req_id) ==
    Range(g.nodes[req_id].components)
        \cup {e.to : e \in {x \in EdgesFrom(g, req_id) :
                                x.type = "depends_on" /\ IsType(g, x.to, "Component")}}

AllChangeSpecs(g, req_id) ==
    Range(g.nodes[req_id].change_specs)
        \cup {e.from : e \in {x \in EdgesTo(g, req_id, "implements") :
                                  IsType(g, x.from, "ChangeSpec")}}

(* variant: the Requirement is taken to have an api contract *)
HasApiContractAssumed(g, req_id) == TRUE

HasApiContract(g, req_id) == \E cid \in AllContracts(g, req_id) : HasApi(cid) /\ HasNode(g.nodes, cid)
HasDataContract(g, req_id) == \E cid \in AllContracts(g, req_id) : HasData(cid) /\ HasNode(g.nodes, cid)
HasComponent(g, req_id) == \E cid \in AllComponents(g, req_id) : HasNode(g.nodes, cid)
HasChangeSpec(g, req_id) == \E cid \in AllChangeSpecs(g, req_id) : HasNode(g.nodes, cid)

ComputeR0(g) ==
    {req_id \in IdsByType(g, "Requirement") :
        \/ ~HasApiContract(g, req_id)
        \/ ~HasDataContract(g, req_id)
        \/ ~HasComponent(g, req_id)
        \/ ~HasChangeSpec(g, req_id)}

ComputeC0(g) ==
    {cs_id \in IdsByType(g, "ChangeSpec") :
        ~g.nodes[cs_id].simple /\ ValidIx(g, cs_id) = {}}

(* reachable_ix walks the attribute lists only *)
ReachableIx(g) ==
    {ix_id \in DOMAIN g.nodes :
        \E sc \in NodesByType(g, "Scenario") :
            \E req_id \in Range(sc.requirements) :
                /\ HasNode(g.nodes, req_id)
                /\ \E cs_id \in Range(g.nodes[req_id].change_specs) :
                      HasNode(g.nodes, cs_id) /\ ix_id \in Range(g.nodes[cs_id].ix)}

ComputeIXOrphan(g) == IdsByType(g, "InteractionSpec") \ ReachableIx(g)

(* missing_count over the six vocabulary terms *)
ApiTermPresent(stmt) ==
    <<Says(stmt, "authz") \/ Says(stmt, "auth") \/ Says(stmt, "authorization"),
      Says(stmt, "rate") \/ Says(stmt, "quota"),
      Says(stmt, "idempotency") \/ Says(stmt, "idempotent"),
      Says(stmt, "timeout"),
      Says(stmt, "error") \/ Says(stmt, "taxonomy"),
      Says(stmt, "observability") \/ Says(stmt, "log") \/ Says(stmt, "metric")
          \/ Says(stmt, "trace")>>

MissingCount(stmt) == Cardinality({i \in 1..6 : ~ApiTermPresent(stmt)[i]})

ComputeAPIWeak(g) ==
    {cid \in IdsByType(g, "Contract") :
        HasApi(cid) /\ MissingCount(g.nodes[cid].stmt) >= ApiWeakFloor}

ComputeQOpen(g) == {q \in IdsByType(g, "OpenQuestion") : g.nodes[q].status = "Open"}

ComputeSets(g) ==
    [S0 |-> ComputeS0(g), R0 |-> ComputeR0(g), C0 |-> ComputeC0(g),
     IX_orphan |-> ComputeIXOrphan(g), API_weak |-> ComputeAPIWeak(g),
     Q_open |-> ComputeQOpen(g)]

NoGaps == [S0 |-> {}, R0 |-> {}, C0 |-> {}, IX_orphan |-> {}, API_weak |-> {}, Q_open |-> {}]

(* total_gaps (Q_open is not counted) *)
TotalGaps(s) ==
    Cardinality(s.S0) + Cardinality(s.R0) + Cardinality(s.C0)
        + Cardinality(s.IX_orphan) + Cardinality(s.API_weak)

(* prev_gaps / current_gaps *)
GapSizes(s) ==
    [S0 |-> Cardinality(s.S0), R0 |-> Cardinality(s.R0), C0 |-> Cardinality(s.C0),
     IX_orphan |-> Cardinality(s.IX_orphan), API_weak |-> Cardinality(s.API_weak)]

-----------------------------------------------------------------------------
(* Deltas *)

NoNode == BlankNode(<<>>, "")

AddNode(node, ref) ==
    [op |-> "add_node", node |-> node, ref |-> ref, from |-> <<>>, to |-> <<>>, type |-> ""]

(* variant: the delta carries a node rebuilt from the keys the engine knows *)
UpdateNodeKnownKeys(node) ==
    [op |-> "update_node", node |-> [node EXCEPT !.extra = <<>>], ref |-> TRUE,
     from |-> <<>>, to |-> <<>>, type |-> ""]

UpdateNode(node) ==
    [op |-> "update_node", node |-> node, ref |-> TRUE, from |-> <<>>, to |-> <<>>, type |-> ""]

AddEdge(from, to, type) ==
    [op |-> "add_edge", node |-> NoNode, ref |-> FALSE, from |-> from, to |-> to, type |-> type]

(* The state _emit_delta_bundle works on: the in-memory graph, self.deltas and
   self.changed_nodes. *)

(* obj = graph.nodes[node_id] mutated in place (or graph.nodes[node_id] = obj for an
   object just built): every delta that holds that object shows the new value *)
SetNode(es, node_id, node) ==
    [es EXCEPT
        !.g.nodes = [x \in DOMAIN es.g.nodes \cup {node_id} |->
                        IF x = node_id THEN node ELSE es.g.nodes[x]],
        !.deltas = [i \in 1..Len(es.deltas) |->
                        IF es.deltas[i].ref /\ es.deltas[i].node.id = node_id
                        THEN [es.deltas[i] EXCEPT !.node = node]
                        ELSE es.deltas[i]]]

Emit(es, ds) == [es EXCEPT !.deltas = @ \o ds]

Changed(es, ids) == [es EXCEPT !.changed = @ \cup ids]

-----------------------------------------------------------------------------
(* The nodes the phases mint *)

ApiVocabulary ==
    "(AUTHZ scopes, RATE LIMIT quota tier, IDEMPOTENCY key, TIMEOUTS ms, ERROR TAXONOMY codes, OBSERVABILITY logs/metrics/spans)"

DataVocabulary == "(schema, migration, retention, PII, region, index, backup, restore)"

MintRequirement(req_id, scenario, change_id, api_contract_id, data_contract_id, component_id) ==
    [BlankNode(req_id, "Requirement") EXCEPT
        !.stmt = <<"Baseline requirement for">> \o scenario.stmt,
        !.change_specs = <<change_id>>,
        !.contracts = <<api_contract_id, data_contract_id>>,
        !.components = <<component_id>>]

MintApiContract(contract_id, base) ==
    [BlankNode(contract_id, "Contract") EXCEPT
        !.stmt = <<"API contract for">> \o base \o <<ApiVocabulary>>,
        !.versioning = TRUE]

MintDataContract(contract_id, base) ==
    [BlankNode(contract_id, "Contract") EXCEPT
        !.stmt = <<"Data contract for">> \o base \o <<DataVocabulary>>]

MintComponent(component_id, base) ==
    [BlankNode(component_id, "Component") EXCEPT
        !.stmt = <<"Logical component for">> \o base]

MintChangeSpec(change_id, base, req_id) ==
    [BlankNode(change_id, "ChangeSpec") EXCEPT
        !.stmt = <<"Implement">> \o base,
        !.implements = <<req_id>>,
        !.rollout_flag = TRUE]

(* the "create" InteractionSpec of phases A, B and C *)
MintInteractionSpec(ix_id, api_contract_id) ==
    [BlankNode(ix_id, "InteractionSpec") EXCEPT
        !.stmt = <<"Create operation via API">>,
        !.depends_on = <<api_contract_id>>,
        !.obs = TRUE, !.sec = TRUE,
        !.test = [mocks |-> TRUE, acc |-> TRUE]]

MintScenario(scenario_id, req) ==
    [BlankNode(scenario_id, "Scenario") EXCEPT
        !.stmt = <<"Scenario for">> \o req.stmt,
        !.requirements = <<req.id>>]

MintAutoChangeSpec(change_id, ix_id, req_id) ==
    [BlankNode(change_id, "ChangeSpec") EXCEPT
        !.stmt = <<"Auto-created change for">> \o ix_id,
        !.implements = <<req_id>>,
        !.ix = <<ix_id>>,
        !.rollout_flag = TRUE]

MintTest(test_id, scenario) ==
    [BlankNode(test_id, "Test") EXCEPT
        !.stmt = <<"Acceptance test for">> \o scenario.stmt]

IxSuffix == "-api-create-fresh-under-ok"

-----------------------------------------------------------------------------
(* VerifyAndRepair._emit_delta_bundle *)

(* A. one scenario of S0 *)
PhaseAStep(es, scenario_id) ==
    IF ~HasNode(es.g.nodes, scenario_id) THEN es
    ELSE
    LET nodes == es.g.nodes
        scenario == nodes[scenario_id]
        s_base == Remove(scenario_id, "scenario:")
        req_id == <<"req:">> \o s_base \o <<"-baseline">>
        api_contract_id == <<"contract:api-">> \o s_base
        data_contract_id == <<"contract:data-">> \o s_base
        component_id == <<"component:">> \o s_base
        change_id == <<"change:">> \o s_base
        ix_id == <<"ix:">> \o s_base \o <<IxSuffix>>
        new_change == ~HasNode(nodes, change_id)
        mint_ix == ~HasNode(nodes, ix_id)
        change0 == IF new_change THEN MintChangeSpec(change_id, s_base, req_id)
                   ELSE nodes[change_id]
        \* change["ix"] = change.get("ix", []) + [ix_id]
        change == IF mint_ix THEN [change0 EXCEPT !.ix = @ \o <<ix_id>>] ELSE change0
        minted ==
            (IF ~HasNode(nodes, req_id)
             THEN <<AddNode(MintRequirement(req_id, scenario, change_id, api_contract_id,
                                            data_contract_id, component_id), FALSE)>>
             ELSE <<>>)
            \o (IF ~HasNode(nodes, api_contract_id)
                THEN <<AddNode(MintApiContract(api_contract_id, s_base), FALSE)>> ELSE <<>>)
            \o (IF ~HasNode(nodes, data_contract_id)
                THEN <<AddNode(MintDataContract(data_contract_id, s_base), FALSE)>> ELSE <<>>)
            \o (IF ~HasNode(nodes, component_id)
                THEN <<AddNode(MintComponent(component_id, s_base), FALSE)>> ELSE <<>>)
            \* the add_node delta holds the change object, which enters graph.nodes
            \* only when the InteractionSpec is minted
            \o (IF new_change THEN <<AddNode(change, mint_ix)>> ELSE <<>>)
        es1 == Emit(es, minted)
        es2 == IF mint_ix
               THEN Emit(Changed(SetNode(Emit(es1,
                            <<AddNode(MintInteractionSpec(ix_id, api_contract_id), FALSE),
                              AddEdge(ix_id, change_id, "depends_on")>>),
                         change_id, change), {change_id}),
                         <<UpdateNode(change)>>)
               ELSE es1
        \* scenario["requirements"] = scenario.get("requirements", []) + [req_id]
        scenario1 == [scenario EXCEPT !.requirements = @ \o <<req_id>>]
    IN Emit(Changed(SetNode(es2, scenario_id, scenario1), {scenario_id}),
            <<UpdateNode(scenario1),
              AddEdge(scenario_id, req_id, "traces_to"),
              AddEdge(req_id, api_contract_id, "depends_on"),
              AddEdge(req_id, data_contract_id, "depends_on"),
              AddEdge(req_id, component_id, "traces_to"),
              AddEdge(change_id, req_id, "implements")>>)

(* B. one ChangeSpec of C0 (operations[:1] is "create") *)
PhaseBStep(es, cs_id) ==
    IF ~HasNode(es.g.nodes, cs_id) THEN es
    ELSE
    LET cs == es.g.nodes[cs_id]
        cs_base == Remove(cs_id, "change:")
        ix_id == <<"ix:">> \o cs_base \o <<IxSuffix>>
        cs1 == [cs EXCEPT !.ix = @ \o <<ix_id>>]
    IN IF HasNode(es.g.nodes, ix_id) THEN es
       ELSE Changed(
              Emit(SetNode(Emit(es,
                      <<AddNode(MintInteractionSpec(ix_id, <<"contract:api-">> \o cs_base), FALSE),
                        AddEdge(ix_id, cs_id, "depends_on")>>),
                   cs_id, cs1),
                   <<UpdateNode(cs1)>>),
              {cs_id})

(* C. one Requirement of R0 *)
PhaseCStep(es, req_id) ==
    IF ~HasNode(es.g.nodes, req_id) THEN es
    ELSE
    LET g == es.g
        nodes == g.nodes
        req == nodes[req_id]
        req_base == ReplaceColons(Remove(req_id, "req:"))
        api_contract_id == <<"contract:api-">> \o req_base
        data_contract_id == <<"contract:data-">> \o req_base
        component_id == <<"component:">> \o req_base
        change_id == <<"change:">> \o req_base
        ix_id == <<"ix:">> \o req_base \o <<IxSuffix>>
        add_api == ~HasApiContract(g, req_id) /\ ~HasNode(nodes, api_contract_id)
        add_data == ~HasDataContract(g, req_id) /\ ~HasNode(nodes, data_contract_id)
        add_component == ~HasComponent(g, req_id) /\ ~HasNode(nodes, component_id)
        add_change == ~HasChangeSpec(g, req_id) /\ ~HasNode(nodes, change_id)
        add_ix == add_change /\ ~HasNode(nodes, ix_id)
        \* the api branch leaves req["contracts"] alone
        req1 == IF add_data THEN [req EXCEPT !.contracts = @ \o <<data_contract_id>>] ELSE req
        req2 == IF add_component THEN [req1 EXCEPT !.components = @ \o <<component_id>>] ELSE req1
        req3 == IF add_change THEN [req2 EXCEPT !.change_specs = @ \o <<change_id>>] ELSE req2
        es1 == IF add_api
               THEN Emit(es, <<AddNode(MintApiContract(api_contract_id, req_base), FALSE),
                               AddEdge(req_id, api_contract_id, "depends_on")>>)
               ELSE es
        es2 == IF add_data
               THEN Changed(SetNode(Emit(es1,
                        <<AddNode(MintDataContract(data_contract_id, req_base), FALSE),
                          AddEdge(req_id, data_contract_id, "depends_on")>>),
                      req_id, req1), {req_id})
               ELSE es1
        es3 == IF add_component
               THEN Changed(SetNode(Emit(es2,
                        <<AddNode(MintComponent(component_id, req_base), FALSE),
                          AddEdge(req_id, component_id, "traces_to")>>),
                      req_id, req2), {req_id})
               ELSE es2
        \* change goes into the add_node delta; change_for_ix, a second dict of the
        \* same content, goes into graph.nodes and into the update_node delta
        change == MintChangeSpec(change_id, req_base, req_id)
        change_for_ix == IF add_ix THEN [change EXCEPT !.ix = @ \o <<ix_id>>] ELSE change
        es4 == IF add_change
               THEN SetNode(
                      Emit(Changed(SetNode(Emit(es3,
                              <<AddNode(change, FALSE),
                                AddEdge(change_id, req_id, "implements")>>),
                            req_id, req3), {req_id}),
                           <<UpdateNode(req3)>>),
                      change_id, change_for_ix)
               ELSE es3
        es5 == IF add_ix
               THEN Emit(Changed(Emit(es4,
                        <<AddNode(MintInteractionSpec(ix_id, <<"contract:api-">> \o req_base), FALSE),
                          AddEdge(ix_id, change_id, "depends_on")>>), {change_id}),
                      <<UpdateNode(change_for_ix)>>)
               ELSE es4
    IN Changed(es5, {req_id})

(* list(self.IX_orphan)[:100] *)
OrphanBatch == 100

(* the first entry of depends_on that is a ChangeSpec node (<<>> when none) *)
FirstChangeSpec(g, depends_on) ==
    LET hits == {i \in 1..Len(depends_on) : IsType(g, depends_on[i], "ChangeSpec")}
    IN IF hits = {} THEN <<>>
       ELSE depends_on[CHOOSE i \in hits : \A j \in hits : i <= j]

(* D. one InteractionSpec of IX_orphan *)
PhaseDStep(es, ix_id) ==
    IF ~HasNode(es.g.nodes, ix_id) THEN es
    ELSE
    LET g == es.g
        nodes == g.nodes
        ix == nodes[ix_id]
        found_id == FirstChangeSpec(g, ix.depends_on)
    IN IF found_id # <<>>
       THEN LET change == nodes[found_id]
                req_id == IF change.implements = <<>> THEN <<>> ELSE change.implements[1]
                scenario_found ==
                    \E sc \in NodesByType(g, "Scenario") : req_id \in Range(sc.requirements)
                scenario_id == <<"scenario:">> \o Remove(req_id, "req:")
            IN IF /\ change.implements # <<>>
                  /\ HasNode(nodes, req_id)
                  /\ ~scenario_found
                  /\ ~HasNode(nodes, scenario_id)
               THEN Emit(es, <<AddNode(MintScenario(scenario_id, nodes[req_id]), FALSE),
                               AddEdge(scenario_id, req_id, "traces_to")>>)
               ELSE es
       ELSE LET seg == FirstSegment(Remove(ix_id, "ix:"))
                req_id == <<"req:">> \o seg \o <<"-auto">>
                change_id == <<"change:">> \o seg \o <<"-auto">>
            IN IF ~HasNode(nodes, change_id)
               THEN Emit(es, <<AddNode(MintAutoChangeSpec(change_id, ix_id, req_id), FALSE),
                               AddEdge(change_id, req_id, "implements"),
                               AddEdge(ix_id, change_id, "depends_on")>>)
               ELSE es

(* the terms phase E finds missing, in the order it appends them *)
(* variant: every term is appended whatever the statement says *)
EnhancementsUnconditional(stmt) ==
    <<"AUTHZ(scopes)", "RATE LIMIT(quota tier)", "IDEMPOTENCY(key)", "TIMEOUTS(ms)",
      "ERROR TAXONOMY(codes)", "OBSERVABILITY(logs/metrics/spans)">>

Enhancements(stmt) ==
    (IF ~Says(stmt, "authz") THEN <<"AUTHZ(scopes)">> ELSE <<>>)
    \o (IF ~Says(stmt, "rate") /\ ~Says(stmt, "quota") THEN <<"RATE LIMIT(quota tier)">> ELSE <<>>)
    \o (IF ~Says(stmt, "idempotency") THEN <<"IDEMPOTENCY(key)">> ELSE <<>>)
    \o (IF ~Says(stmt, "timeout") THEN <<"TIMEOUTS(ms)">> ELSE <<>>)
    \o (IF ~Says(stmt, "error") /\ ~Says(stmt, "taxonomy")
        THEN <<"ERROR TAXONOMY(codes)">> ELSE <<>>)
    \o (IF ~Says(stmt, "observability") /\ ~Says(stmt, "log") /\ ~Says(stmt, "metric")
        THEN <<"OBSERVABILITY(logs/metrics/spans)">> ELSE <<>>)

(* E. one Contract of API_weak: contract["stmt"] = f"{stmt} ({', '.join(enhancements)})";
   the added punctuation carries no keyword *)
PhaseEStep(es, contract_id) ==
    IF ~HasNode(es.g.nodes, contract_id) THEN es
    ELSE
    LET contract == es.g.nodes[contract_id]
        enhancements == Enhancements(contract.stmt)
        contract1 == [contract EXCEPT !.stmt = @ \o enhancements]
    IN IF enhancements = <<>> THEN es
       ELSE Changed(Emit(SetNode(es, contract_id, contract1), <<UpdateNode(contract1)>>),
                    {contract_id})

(* F, first loop: one Scenario *)
PhaseFScenarioStep(es, scenario_id) ==
    LET scenario == es.g.nodes[scenario_id]
        test_id == <<"test:">> \o Remove(scenario_id, "scenario:") \o <<"-acc">>
    IN IF scenario.tests = <<>> /\ ~HasNode(es.g.nodes, test_id)
       THEN Changed(Emit(es, <<AddNode(MintTest(test_id, scenario), FALSE),
                               AddEdge(scenario_id, test_id, "traces_to")>>),
                    {scenario_id})
       ELSE es

(* F, second loop: one InteractionSpec *)
PhaseFIxStep(es, ix_id) ==
    LET ix == es.g.nodes[ix_id]
        ix1 == [ix EXCEPT !.test = [mocks |-> TRUE, acc |-> TRUE]]
    IN IF ~ix.test.mocks \/ ~ix.test.acc
       THEN Changed(Emit(SetNode(es, ix_id, ix1), <<UpdateNode(ix1)>>), {ix_id})
       ELSE es

RECURSIVE PhaseA(_, _)
(* for scenario_id in self.S0 *)
PhaseA(es, order) ==
    IF order = <<>> THEN es ELSE PhaseA(PhaseAStep(es, Head(order)), Tail(order))

RECURSIVE PhaseB(_, _)
(* for cs_id in self.C0 *)
PhaseB(es, order) ==
    IF order = <<>> THEN es ELSE PhaseB(PhaseBStep(es, Head(order)), Tail(order))

RECURSIVE PhaseC(_, _)
(* for req_id in list(self.R0) *)
PhaseC(es, order) ==
    IF order = <<>> THEN es ELSE PhaseC(PhaseCStep(es, Head(order)), Tail(order))

RECURSIVE PhaseDLoop(_, _)
PhaseDLoop(es, order) ==
    IF order = <<>> THEN es ELSE PhaseDLoop(PhaseDStep(es, Head(order)), Tail(order))

(* for ix_id in list(self.IX_orphan)[:100] *)
PhaseD(es, order) ==
    PhaseDLoop(es, SubSeq(order, 1, IF Len(order) < OrphanBatch THEN Len(order) ELSE OrphanBatch))

RECURSIVE PhaseE(_, _)
(* for contract_id in self.API_weak *)
PhaseE(es, order) ==
    IF order = <<>> THEN es ELSE PhaseE(PhaseEStep(es, Head(order)), Tail(order))

RECURSIVE PhaseFScenarios(_, _)
(* for scenario in scenarios *)
PhaseFScenarios(es, order) ==
    IF order = <<>> THEN es
    ELSE PhaseFScenarios(PhaseFScenarioStep(es, Head(order)), Tail(order))

RECURSIVE PhaseFIx(_, _)
(* for ix in interaction_specs *)
PhaseFIx(es, order) ==
    IF order = <<>> THEN es ELSE PhaseFIx(PhaseFIxStep(es, Head(order)), Tail(order))

-----------------------------------------------------------------------------
(* VerifyAndRepair._apply_deltas *)

(* for delta in current_deltas: if delta["op"] == op: save_node(node["id"], node).
   The loop assigns files and dict entries in list order, so for every file and
   every id the last delta of that op that names it stays. *)
LastWrite(ds, hits) == ds[CHOOSE i \in hits : \A j \in hits : j <= i].node

SaveAll(st, ds, op) ==
    LET saves == {i \in 1..Len(ds) : ds[i].op = op}
        file(i) == NodeFile(ds[i].node.id, ds[i].node)
        files_hit(k) == {i \in saves : file(i) = k}
        nodes_hit(x) == {i \in saves : ds[i].node.id = x}
    IN [files |-> [k \in DOMAIN st.files \cup {file(i) : i \in saves} |->
                      IF files_hit(k) # {} THEN LastWrite(ds, files_hit(k)) ELSE st.files[k]],
        nodes |-> [x \in DOMAIN st.nodes \cup {ds[i].node.id : i \in saves} |->
                      IF nodes_hit(x) # {} THEN LastWrite(ds, nodes_hit(x)) ELSE st.nodes[x]],
        node_by_type |-> [t \in DOMAIN st.node_by_type |->
                             st.node_by_type[t] \cup
                             {ds[i].node.id : i \in {j \in saves : ds[j].node.type = t}}]]

(* variant: the triple is never found *)
EdgeExistsNever(edges, d) == FALSE

EdgeExists(edges, d) ==
    \E i \in 1..Len(edges) :
        edges[i].from = d.from /\ edges[i].to = d.to /\ edges[i].type = d.type

(* second pass: an edge not yet in graph.edges is appended to graph.edges and to
   edges.ndjson, so of equal add_edge deltas only the first appends; st is
   [edges, edgelog] *)
AppendEdges(st, ds) ==
    LET same(i, j) == ds[i].from = ds[j].from /\ ds[i].to = ds[j].to /\ ds[i].type = ds[j].type
        adds == {i \in 1..Len(ds) : ds[i].op = "add_edge"}
        keep == {i \in adds : /\ ~EdgeExists(st.edges, ds[i])
                              /\ \A j \in adds : j < i => ~same(i, j)}
        nth(n) == CHOOSE i \in keep : Cardinality({j \in keep : j <= i}) = n
        new == [n \in 1..Cardinality(keep) |->
                   [from |-> ds[nth(n)].from, to |-> ds[nth(n)].to, type |-> ds[nth(n)].type]]
    IN [edges |-> st.edges \o new, edgelog |-> st.edgelog \o new]

(* add_node deltas first, then add_edge, then update_node; the result is the store
   and the in-memory graph *)
ApplyDeltas(d, g, current_deltas) ==
    LET added == SaveAll([files |-> d.files, nodes |-> g.nodes, node_by_type |-> g.node_by_type],
                         current_deltas, "add_node")
        edged == AppendEdges([edges |-> g.edges, edgelog |-> d.edgelog], current_deltas)
        updated == SaveAll(added, current_deltas, "update_node")
    IN [disk |-> [files |-> updated.files, edgelog |-> edged.edgelog],
        graph |-> [nodes |-> updated.nodes, node_by_type |-> updated.node_by_type,
                   edges |-> edged.edges]]

-----------------------------------------------------------------------------
(* VerifyAndRepair._run_proofs *)

P1(g) == \A nt \in {"Component", "Contract", "InteractionSpec"} : NodesByType(g, nt) # {}

P2(sets) == sets.S0 = {}

P3(g) ==
    \A c \in {x \in NodesByType(g, "Contract") : HasData(x.id) \/ Says(x.stmt, "data")} :
        Cardinality({f \in DataFields : Says(c.stmt, f)}) >= P3Floor

P4(sets) == sets.API_weak = {}

P5(g) == \A sc \in NodesByType(g, "Scenario") : sc.tests # <<>>

P6(g) ==
    /\ \A c \in NodesByType(g, "Component") : c.observability
    /\ \A ix \in NodesByType(g, "InteractionSpec") : ix.obs \/ ix.observability

P7(g) ==
    /\ \A c \in NodesByType(g, "Contract") : c.versioning
    /\ \A cs \in NodesByType(g, "ChangeSpec") : cs.rollout_flag

P8(g) == \A ix \in NodesByType(g, "InteractionSpec") : ix.status # "Blocked"

(* coverage >= 1.0: no incomplete nonterminal *)
P9(g) ==
    /\ \A r \in NodesByType(g, "Requirement") : r.change_specs # <<>>
    /\ \A cs \in NodesByType(g, "ChangeSpec") : cs.simple \/ cs.ix # <<>>
    /\ \A sc \in NodesByType(g, "Scenario") : sc.requirements # <<>>

P10(g) ==
    Cardinality({area \in CoreAreas :
        \E n \in NodesByType(g, "Scenario") \cup NodesByType(g, "Requirement") :
            Says(n.stmt, area)}) >= P10Floor

(* the proofs dict: P[i] is proofs['P<i>'], details the sets recomputed *)
RunProofs(g) ==
    LET sets == ComputeSets(g)
    IN [bound |-> TRUE,
        P |-> <<P1(g), P2(sets), P3(g), P4(sets), P5(g), P6(g), P7(g), P8(g), P9(g), P10(g)>>,
        details |-> sets]

Unbound == [bound |-> FALSE, P |-> [i \in 1..10 |-> FALSE], details |-> NoGaps]

(* all(v for k, v in proofs.items() if k != 'details') *)
AllPassing(p) == \A i \in 1..10 : p.P[i]

-----------------------------------------------------------------------------
(* The stores the runs start from *)

TopicsPhrase ==
    "identity users preferences navigation connectivity data-storage caching queues secrets observability analytics feature-flags security i18n"

(* loose nodes around the slug "a" *)
ScenarioA == [BlankNode(<<"scenario:", "a">>, "Scenario") EXCEPT !.stmt = <<TopicsPhrase>>]

IxA ==
    [BlankNode(<<"ix:", "a", IxSuffix>>, "InteractionSpec") EXCEPT
        !.stmt = <<"Create operation via API">>, !.obs = TRUE, !.sec = TRUE,
        !.test = [mocks |-> TRUE, acc |-> TRUE]]

RequirementA ==
    [BlankNode(<<"req:", "a">>, "Requirement") EXCEPT
        !.contracts = <<<<"contract:api-", "b">>, <<"contract:data-", "b">>>>,
        !.change_specs = <<<<"change:", "b">>>>]

ChangeSpecA ==
    [BlankNode(<<"change:", "a">>, "ChangeSpec") EXCEPT
        !.implements = <<<<"req:", "a">>>>, !.rollout_flag = TRUE]

ContractA ==
    [BlankNode(<<"contract:api-", "a">>, "Contract") EXCEPT
        !.stmt = <<"authZ and timeouts">>, !.versioning = TRUE]

QuestionA == BlankNode(<<"question:", "a">>, "OpenQuestion")

LooseNodes == {ScenarioA, IxA, RequirementA, ChangeSpecA, ContractA, QuestionA}

(* a chain around the slug "b" on which every proof holds; with_ix = FALSE leaves
   out its InteractionSpec *)
ChainB(with_ix) ==
    LET ix_id == <<"ix:", "b", IxSuffix>>
        chain ==
         {[BlankNode(<<"scenario:", "b">>, "Scenario") EXCEPT
              !.stmt = <<TopicsPhrase>>,
              !.requirements = <<<<"req:", "b", "-baseline">>>>,
              !.tests = <<<<"test:", "b", "-acc">>>>],
          [BlankNode(<<"req:", "b", "-baseline">>, "Requirement") EXCEPT
              !.contracts = <<<<"contract:api-", "b">>, <<"contract:data-", "b">>>>,
              !.components = <<<<"component:", "b">>>>,
              !.change_specs = <<<<"change:", "b">>>>],
          [MintApiContract(<<"contract:api-", "b">>, <<"b">>) EXCEPT !.versioning = TRUE],
          [MintDataContract(<<"contract:data-", "b">>, <<"b">>) EXCEPT !.versioning = TRUE],
          [MintComponent(<<"component:", "b">>, <<"b">>) EXCEPT !.observability = TRUE],
          [MintChangeSpec(<<"change:", "b">>, <<"b">>, <<"req:", "b", "-baseline">>) EXCEPT
              !.ix = IF with_ix THEN <<ix_id>> ELSE <<>>]}
    IN IF with_ix
       THEN chain \cup {MintInteractionSpec(ix_id, <<"contract:api-", "b">>)}
       ELSE chain

Chains == {{}, ChainB(TRUE), ChainB(FALSE)}

(* the store that holds the given nodes, each written as save_node writes it *)
StoreOf(ns) ==
    [files |-> [k \in {NodeFile(n.id, n) : n \in ns} |->
                   CHOOSE n \in ns : NodeFile(n.id, n) = k],
     edgelog |-> <<>>]

InitialStores == {StoreOf(loose \cup chain) : loose \in SUBSET LooseNodes, chain \in Chains}

Budgets == (0..MaxBudget) \cup {DefaultMaxIterations}

-----------------------------------------------------------------------------
(* The run: main() and VerifyAndRepair.verify_and_repair *)

NoOutput ==
    [returned |-> FALSE, proofs |-> Unbound, deltas |-> <<>>,
     top_gaps |-> GapSizes(NoGaps), changed_nodes |-> {}]

(* PlanGraph.__init__ before load: no nodes, no edges *)
EmptyGraph == [nodes |-> <<>>, node_by_type |-> [t \in NodeTypes |-> {}], edges |-> <<>>]

NoHist(d) ==
    [emitted |-> 0, pass_deltas |-> 0, start_sets |-> NoGaps, start_graph |-> EmptyGraph,
     start_disk |-> d, ext_writes |-> 0, saved |-> <<>>, suppressed |-> 0,
     first_disk |-> d, failed |-> 0, fail_run |-> 0, fail_at |-> 0, fail_order |-> <<>>,
     fail_emitted |-> <<>>, fail_disk |-> d, applied |-> {}]

(* graph = PlanGraph(plan_dir); verifier = VerifyAndRepair(graph);
   verifier.verify_and_repair(max_iterations) up to the while statement *)
InitOn(stores) ==
    /\ disk \in stores
    /\ graph \in Load(disk)
    /\ gaps = NoGaps
    /\ deltas = <<>>
    /\ changed_nodes = {}
    /\ iteration = 0
    /\ all_passing = FALSE
    /\ proofs = Unbound
    /\ prev_gaps = GapSizes(NoGaps)
    /\ max_iterations \in Budgets
    /\ output = NoOutput
    /\ exit_code = -1
    /\ pc = "while"
    /\ run = 1
    /\ hist = NoHist(disk)

Init == InitOn(InitialStores)

(* the loop test without its budget half *)
LoopConditionNoBudget == ~all_passing

(* while iteration < max_iterations and not all_passing *)
LoopCondition == iteration < max_iterations /\ ~all_passing

(* the while test; iteration += 1 *)
StartPass ==
    /\ pc = "while"
    /\ IF LoopCondition
       THEN iteration' = iteration + 1 /\ pc' = "load"
       ELSE iteration' = iteration /\ pc' = "output"
    /\ UNCHANGED <<disk, graph, gaps, deltas, changed_nodes, all_passing, proofs,
                   prev_gaps, max_iterations, output, exit_code, run, hist>>

(* a graph object that keeps what it holds instead of reading the store *)
ReloadCached(g, d) == {g}

(* Step 1: self.graph.load() *)
Reload(g, d) == Load(d)

LoadGraph ==
    /\ pc = "load"
    /\ graph' \in Reload(graph, disk)
    /\ pc' = "compute"
    /\ UNCHANGED <<disk, gaps, deltas, changed_nodes, iteration, all_passing, proofs,
                   prev_gaps, max_iterations, output, exit_code, run, hist>>

(* Step 2: _compute_sets(); total_gaps == 0 breaks; prev_gaps *)
(* _compute_sets() if it recorded its finding on the Scenarios of S0 *)
AnalyzeMarking ==
    /\ pc = "compute"
    /\ gaps' = ComputeSets(graph)
    /\ IF TotalGaps(gaps') = 0
       THEN pc' = "output" /\ prev_gaps' = prev_gaps
       ELSE pc' = "emit" /\ prev_gaps' = GapSizes(gaps')
    /\ graph' = [graph EXCEPT !.nodes = [x \in DOMAIN graph.nodes |->
                    IF x \in gaps'.S0 THEN [graph.nodes[x] EXCEPT !.status = "Blocked"]
                    ELSE graph.nodes[x]]]
    /\ hist' = [hist EXCEPT !.start_sets = gaps', !.start_graph = graph, !.pass_deltas = 0]
    /\ UNCHANGED <<disk, deltas, changed_nodes, iteration, all_passing, proofs,
                   max_iterations, output, exit_code, run>>

Analyze ==
    /\ pc = "compute"
    /\ gaps' = ComputeSets(graph)
    /\ IF TotalGaps(gaps') = 0
       THEN pc' = "output" /\ prev_gaps' = prev_gaps
       ELSE pc' = "emit" /\ prev_gaps' = GapSizes(gaps')
    /\ hist' = [hist EXCEPT !.start_sets = gaps', !.start_graph = graph, !.pass_deltas = 0]
    /\ UNCHANGED <<disk, graph, deltas, changed_nodes, iteration, all_passing, proofs,
                   max_iterations, output, exit_code, run>>

(* Step 3: _emit_delta_bundle(), phase by phase in strict order.  Each loop visits
   a set, in an order Python does not fix. *)
EmitState == [g |-> graph, deltas |-> deltas, changed |-> changed_nodes]

Emitted(es, next_pc) ==
    /\ graph' = es.g
    /\ deltas' = es.deltas
    /\ changed_nodes' = es.changed
    /\ hist' = [hist EXCEPT !.emitted = @ + Len(es.deltas) - Len(deltas),
                            !.pass_deltas = Len(es.deltas)]
    /\ pc' = next_pc
    /\ UNCHANGED <<disk, gaps, iteration, all_passing, proofs, prev_gaps, max_iterations,
                   output, exit_code, run>>

EmitA ==
    /\ pc = "emit"
    /\ \E order \in SetToSeqs(gaps.S0) : Emitted(PhaseA(EmitState, order), "emitB")

EmitB ==
    /\ pc = "emitB"
    /\ \E order \in SetToSeqs(gaps.C0) : Emitted(PhaseB(EmitState, order), "emitC")

EmitC ==
    /\ pc = "emitC"
    /\ \E order \in SetToSeqs(gaps.R0) : Emitted(PhaseC(EmitState, order), "emitD")

EmitD ==
    /\ pc = "emitD"
    /\ \E order \in SetToSeqs(gaps.IX_orphan) : Emitted(PhaseD(EmitState, order), "emitE")

EmitE ==
    /\ pc = "emitE"
    /\ \E order \in SetToSeqs(gaps.API_weak) : Emitted(PhaseE(EmitState, order), "emitF")

EmitF ==
    /\ pc = "emitF"
    /\ \E scenarios \in SetToSeqs(IdsByType(graph, "Scenario")) :
          \E interaction_specs \in SetToSeqs(IdsByType(graph, "InteractionSpec")) :
             Emitted(PhaseFIx(PhaseFScenarios(EmitState, scenarios), interaction_specs),
                     "emitted")

(* if len(self.deltas) == 0: proofs = _run_proofs(); all_passing = ...; break *)
NoDeltas ==
    /\ pc = "emitted"
    /\ Len(deltas) = 0
    /\ proofs' = RunProofs(graph)
    /\ gaps' = proofs'.details
    /\ all_passing' = AllPassing(proofs')
    /\ pc' = "output"
    /\ UNCHANGED <<disk, graph, deltas, changed_nodes, iteration, prev_gaps,
                   max_iterations, output, exit_code, run, hist>>

(* Step 4: _apply_deltas(): current_deltas = self.deltas.copy(); self.deltas = [] *)
Apply ==
    /\ pc = "emitted"
    /\ Len(deltas) # 0
    /\ LET r == ApplyDeltas(disk, graph, deltas)
       IN disk' = r.disk /\ graph' = r.graph
    /\ deltas' = <<>>
    /\ pc' = "reload"
    /\ hist' = [hist EXCEPT !.suppressed = @ + Cardinality(
                    {i \in 1..Len(deltas) : /\ deltas[i].op = "add_edge"
                                             /\ EdgeExists(graph.edges, deltas[i])}),
                             !.applied = @ \cup Range(deltas)]
    /\ UNCHANGED <<gaps, changed_nodes, iteration, all_passing, proofs, prev_gaps,
                   max_iterations, output, exit_code, run>>

(* self.graph.load() after applying *)
ReloadGraph ==
    /\ pc = "reload"
    /\ graph' \in Reload(graph, disk)
    /\ pc' = "verify"
    /\ UNCHANGED <<disk, gaps, deltas, changed_nodes, iteration, all_passing, proofs,
                   prev_gaps, max_iterations, output, exit_code, run, hist>>

(* progress = any(current_gaps[k] < prev_gaps[k] for k in current_gaps) *)
Progress(current, prev) ==
    \/ current.S0 < prev.S0
    \/ current.R0 < prev.R0
    \/ current.C0 < prev.C0
    \/ current.IX_orphan < prev.IX_orphan
    \/ current.API_weak < prev.API_weak

(* if not progress and len(self.deltas) == 0: break *)
NoProgressBreak(current, prev, ds) == ~Progress(current, prev) /\ Len(ds) = 0

(* Step 5: proofs = _run_proofs(); the progress check; all_passing *)
Verify ==
    /\ pc = "verify"
    /\ proofs' = RunProofs(graph)
    /\ gaps' = proofs'.details
    /\ IF NoProgressBreak(GapSizes(gaps'), prev_gaps, deltas)
       THEN all_passing' = all_passing /\ pc' = "output"
       ELSE /\ all_passing' = AllPassing(proofs')
            /\ pc' = IF all_passing' THEN "output" ELSE "while"
    /\ UNCHANGED <<disk, graph, deltas, changed_nodes, iteration, prev_gaps,
                   max_iterations, output, exit_code, run, hist>>

(* Step 6: output = self._generate_output(proofs); return output.  Reading proofs
   before any assignment raises UnboundLocalError. *)
GenerateOutput(p, ds, sets, changed) ==
    [returned |-> TRUE, proofs |-> p, deltas |-> ds, top_gaps |-> GapSizes(sets),
     changed_nodes |-> changed]

Return ==
    /\ pc = "output"
    /\ IF proofs.bound
       THEN output' = GenerateOutput(proofs, deltas, gaps, changed_nodes) /\ pc' = "returned"
       ELSE output' = output /\ pc' = "raised"
    /\ UNCHANGED <<disk, graph, gaps, deltas, changed_nodes, iteration, all_passing,
                   proofs, prev_gaps, max_iterations, exit_code, run, hist>>

(* main(): return 0 if all_passing else 1; an uncaught exception ends the process
   with status 1.  main() calls verify_and_repair() with the default budget. *)
ExitStatus(out) == IF out.returned /\ AllPassing(out.proofs) THEN 0 ELSE 1

Main ==
    /\ pc \in {"returned", "raised"}
    /\ max_iterations = DefaultMaxIterations
    /\ exit_code' = ExitStatus(output)
    /\ pc' = "exited"
    /\ UNCHANGED <<disk, graph, gaps, deltas, changed_nodes, iteration, all_passing,
                   proofs, prev_gaps, max_iterations, output, run, hist>>

Ended ==
    \/ pc = "exited"
    \/ pc \in {"returned", "raised"} /\ max_iterations # DefaultMaxIterations

(* the program is run again on the store the last run left *)
Rerun ==
    /\ Ended
    /\ run < MaxRuns
    /\ run' = run + 1
    /\ graph' \in Load(disk)
    /\ gaps' = NoGaps
    /\ deltas' = <<>>
    /\ changed_nodes' = {}
    /\ iteration' = 0
    /\ all_passing' = FALSE
    /\ proofs' = Unbound
    /\ prev_gaps' = GapSizes(NoGaps)
    /\ output' = NoOutput
    /\ exit_code' = -1
    /\ pc' = "while"
    /\ hist' = [NoHist(disk) EXCEPT !.ext_writes = hist.ext_writes,
                                     !.first_disk = hist.first_disk,
                                     !.failed = hist.failed,
                                     !.fail_run = hist.fail_run]
    /\ UNCHANGED <<disk, max_iterations>>

Next ==
    \/ StartPass
    \/ LoadGraph
    \/ Analyze
    \/ EmitA
    \/ EmitB
    \/ EmitC
    \/ EmitD
    \/ EmitE
    \/ EmitF
    \/ NoDeltas
    \/ Apply
    \/ ReloadGraph
    \/ Verify
    \/ Return
    \/ Main
    \/ Rerun

Spec == Init /\ [][Next]_vars

-----------------------------------------------------------------------------
(* Another tool of the repository working on the same plan directory between two
   passes: MinimalDeltaApplier._save_node writes a node file, _add_edge appends a
   line to edges.ndjson unless the edge is already there. *)

QuestionX == BlankNode(<<"question:", "x">>, "OpenQuestion")

IxX == MintInteractionSpec(<<"ix:", "x", IxSuffix>>, <<"contract:api-", "x">>)

ExternalNodes == {QuestionX, IxX}

ExternalEdges == {[from |-> <<"scenario:", "a">>, to |-> <<"question:", "x">>, type |-> "relates_to"]}

ExternalWrite ==
    /\ pc = "while"
    /\ hist.ext_writes < MaxExternalWrites
    /\ \/ \E n \in ExternalNodes :
             disk' = [disk EXCEPT !.files = WriteFile(@, n.id, n)]
       \/ \E e \in ExternalEdges :
             /\ ~EdgeExists(disk.edgelog, e)
             /\ disk' = [disk EXCEPT !.edgelog = Append(@, e)]
    /\ hist' = [hist EXCEPT !.ext_writes = @ + 1]
    /\ UNCHANGED <<graph, gaps, deltas, changed_nodes, iteration, all_passing, proofs,
                   prev_gaps, max_iterations, output, exit_code, pc, run>>

ExtStores ==
    {StoreOf(loose) : loose \in SUBSET {ScenarioA, RequirementA, IxA}}
        \cup {StoreOf({RequirementA} \cup ChainB(TRUE))}

InitExt == InitOn(ExtStores)

NextExt == Next \/ ExternalWrite

SpecExt == InitExt /\ [][NextExt]_vars

-----------------------------------------------------------------------------
(* Properties of verify_and_repair *)

RunEnded == pc \in {"returned", "raised"}

(* Statements of a pass and of the end of a run, numbered from the last one back *)
PcRank ==
    [p \in {"exited", "returned", "raised", "output", "while", "verify", "reload", "emitted",
             "emitF", "emitE", "emitD", "emitC", "emitB", "emit", "compute", "load"} |->
        CASE p = "exited" -> 0
          [] p \in {"returned", "raised"} -> 1
          [] p = "output" -> 2
          [] p = "while" -> 3
          [] p = "verify" -> 4
          [] p = "reload" -> 5
          [] p = "emitted" -> 6
          [] p = "emitF" -> 7
          [] p = "emitE" -> 8
          [] p = "emitD" -> 9
          [] p = "emitC" -> 10
          [] p = "emitB" -> 11
          [] p = "emit" -> 12
          [] p = "compute" -> 13
          [] p = "load" -> 14]

(* What is left of the runs: the invocations left, then the passes left in this
   one, then the statements left in this pass *)
Rank ==
    LET pass == Cardinality(DOMAIN PcRank)
        whole == (max_iterations + 1) * pass
    IN (MaxRuns - run) * whole + (max_iterations - iteration) * pass + PcRank[pc]

(* C1: for every initial store and every budget verify_and_repair terminates, and
   the number of passes it has started (iteration) never exceeds max_iterations.
   Termination: every step of the program strictly lowers Rank, a natural number,
   so no run takes infinitely many steps. *)
C1_TerminatesWithinBudget ==
    /\ [](iteration <= max_iterations /\ Rank \in Nat)
    /\ [][Rank' < Rank]_vars

(* C1 witness: a run that stopped at the loop test because the budget was used up
   while the last pass had made progress and invariants still failed. *)
C1_BudgetExhausted ==
    /\ pc = "output"
    /\ iteration >= 1
    /\ iteration = max_iterations
    /\ proofs.bound
    /\ ~all_passing
    /\ Progress(GapSizes(gaps), prev_gaps)

(* the pass has been verified: its deltas were applied, the graph was reloaded and
   the gap sets recomputed (the statements after _run_proofs, up to the report) *)
PassVerified == pc \in {"while", "output"} /\ hist.pass_deltas >= 1

NotLarger(after, before) ==
    /\ Cardinality(after.S0) <= Cardinality(before.S0)
    /\ Cardinality(after.R0) <= Cardinality(before.R0)
    /\ Cardinality(after.C0) <= Cardinality(before.C0)
    /\ Cardinality(after.IX_orphan) <= Cardinality(before.IX_orphan)
    /\ Cardinality(after.API_weak) <= Cardinality(before.API_weak)
    /\ Cardinality(after.Q_open) <= Cardinality(before.Q_open)

(* C2: when verify_and_repair is run a second time on the store the first run
   left, the second run emits no delta and every node file and the edge log stay
   as the first run left them. *)
C2_SecondRunIdle == run = 2 => hist.emitted = 0 /\ disk = hist.start_disk

(* C3: without an external writer, each of S0, R0, C0, IX_orphan, API_weak and
   Q_open recomputed after a pass's deltas are applied is no larger than it was at
   the start of that pass. *)
C3_GapsNeverGrow == PassVerified => NotLarger(gaps, hist.start_sets)

(* C4: every run of verify_and_repair that ends returns a report that holds the
   result of each of P1..P10 and the remaining gap sets. *)
C4_ReportAlways == RunEnded => output.returned /\ output.proofs.bound

(* C5: after the verification step of a pass another pass starts if and only if an
   invariant still fails, the pass produced at least one delta and the budget is
   not used up; so a run does not end after a pass that produced deltas while an
   invariant fails and budget is left, and a pass only ever follows such a pass. *)
C5_ContinueIffDelta ==
    /\ (pc = "output" /\ proofs.bound /\ ~AllPassing(proofs) /\ hist.pass_deltas >= 1)
          => iteration >= max_iterations
    /\ (pc = "load" /\ iteration >= 2)
          => ~AllPassing(proofs) /\ hist.pass_deltas >= 1 /\ iteration - 1 < max_iterations

(* C6: the process exits with 0 exactly when P1..P10, computed on the graph read
   from the store as the run left it, are all true; otherwise it exits with 1. *)
C6_ExitZeroIffAllPass ==
    pc = "exited" =>
        /\ exit_code \in {0, 1}
        /\ exit_code = 0 <=> \A g \in Load(disk) : AllPassing(RunProofs(g))

(* C8: every Scenario that was in S0 at the start of a pass is out of S0 when the
   sets are recomputed after the pass's deltas are applied. *)
C8_PhaseAClosesS0 == PassVerified => hist.start_sets.S0 \cap gaps.S0 = {}

SeedStore == StoreOf({ScenarioA})

SeedChain ==
    {<<"Requirement", <<"req:", "a", "-baseline">>>>,
     <<"Contract", <<"contract:api-", "a">>>>,
     <<"Contract", <<"contract:data-", "a">>>>,
     <<"Component", <<"component:", "a">>>>,
     <<"ChangeSpec", <<"change:", "a">>>>,
     <<"InteractionSpec", <<"ix:", "a", IxSuffix>>>>,
     <<"Test", <<"test:", "a", "-acc">>>>}

(* C9: from a store that holds one Scenario and nothing else, after the first pass
   the store holds the Requirement, the two Contracts, the Component, the
   ChangeSpec, the InteractionSpec and the Test of that Scenario, and P1..P10 are
   all reported true. *)
C9_SeedConverges ==
    (run = 1 /\ hist.start_disk = SeedStore /\ iteration = 1 /\ PassVerified) =>
        /\ \A c \in SeedChain : \E k \in DOMAIN disk.files :
               k[1] = c[1] /\ disk.files[k].id = c[2] /\ disk.files[k].type = c[1]
        /\ AllPassing(proofs)

(* C10: every Requirement that was in R0 at the start of a pass is out of R0 when
   the sets are recomputed after the pass's deltas are applied and the graph is
   reloaded. *)
C10_PhaseCClosesR0 == PassVerified => hist.start_sets.R0 \cap gaps.R0 = {}

(* C7: every pass starts from a full read of the store: when the gap analysis runs,
   the graph in memory is what the store holds at that moment, whatever another
   process wrote between the passes, and the gap sets are computed from that graph
   alone. *)
C7_PassReadsStore ==
    /\ pc \in {"compute", "emit"} => graph \in Load(disk)
    /\ pc = "emit" => gaps = ComputeSets(graph)

(* C7 witness: in a second or later pass the gap analysis has counted a node that
   another process wrote after the run began. *)
C7_ExternalNodeAnalysed ==
    /\ pc = "emit"
    /\ iteration >= 2
    /\ hist.ext_writes >= 1
    /\ IxX.id \in gaps.IX_orphan
    /\ \A k \in DOMAIN hist.start_disk.files : hist.start_disk.files[k].id # IxX.id


(***************************************************************************)
(* Saving nodes: PlanGraph.save_node and MinimalDeltaApplier._save_node    *)
(* called on an empty plan directory, followed by a load.                  *)
(***************************************************************************)

MaxSaves == 3

(* MinimalDeltaApplier._save_node: ':' '/' '\' and <>"|?* become '-'; '&' stays *)
AppliedSanitize(t) == IF t = "req&" THEN t ELSE ColonToHyphen(t)

(* filename[:200]; when cut > 0 the last piece of kept is there only up to its
   first cut characters *)
AppliedFilename(node_id) ==
    LET safe == [i \in 1..Len(node_id) |-> AppliedSanitize(node_id[i])] IN
    IF TextLen(safe) > 200
    THEN LET kept == KeptPieces(safe, 200)
             cut == 200 - TextLen(kept)
         IN [kept |-> IF cut = 0 THEN kept ELSE Append(kept, safe[Len(kept) + 1]),
             cut |-> cut, md5 |-> <<>>]
    ELSE [kept |-> safe, cut |-> 0, md5 |-> <<>>]

(* node_file.write_text(json.dumps(node)) *)
AppliedWrite(files, node_id, node) ==
    LET k == <<node.type, AppliedFilename(node_id)>> IN
    [x \in DOMAIN files \cup {k} |-> IF x = k THEN node ELSE files[x]]

(* Requirements whose ids differ only in a character the sanitizers replace,
   or only after the 200th character; req:a comes in two versions *)
SavedIds ==
    {<<"req:", "a">>, <<"req-", "a">>, <<"req&", "a">>,
     <<"req:", "slug-of-200-characters", "a">>, <<"req:", "slug-of-200-characters", "b">>}

SavedNodes ==
    {BlankNode(id, "Requirement") : id \in SavedIds}
        \cup {[BlankNode(<<"req:", "a">>, "Requirement") EXCEPT !.status = "Closed"]}

InitSave ==
    /\ disk = StoreOf({})
    /\ graph \in Load(disk)
    /\ gaps = NoGaps
    /\ deltas = <<>>
    /\ changed_nodes = {}
    /\ iteration = 0
    /\ all_passing = FALSE
    /\ proofs = Unbound
    /\ prev_gaps = GapSizes(NoGaps)
    /\ max_iterations = 0
    /\ output = NoOutput
    /\ exit_code = -1
    /\ pc = "save"
    /\ run = 1
    /\ hist = NoHist(disk)

Saved(n) ==
    /\ hist' = [hist EXCEPT !.saved = Append(@, n)]
    /\ UNCHANGED <<gaps, deltas, changed_nodes, iteration, all_passing, proofs, prev_gaps,
                   max_iterations, output, exit_code, pc, run>>

(* graph.save_node(node["id"], node) *)
SaveByEngine ==
    /\ pc = "save"
    /\ Len(hist.saved) < MaxSaves
    /\ \E n \in SavedNodes :
          LET st == SaveNode([files |-> disk.files, nodes |-> graph.nodes,
                              node_by_type |-> graph.node_by_type], n.id, n)
          IN /\ disk' = [disk EXCEPT !.files = st.files]
             /\ graph' = [graph EXCEPT !.nodes = st.nodes, !.node_by_type = st.node_by_type]
             /\ Saved(n)

(* applier._save_node(node_id, node) on the same plan directory *)
SaveByApplier ==
    /\ pc = "save"
    /\ Len(hist.saved) < MaxSaves
    /\ \E n \in SavedNodes :
          /\ disk' = [disk EXCEPT !.files = AppliedWrite(@, n.id, n)]
          /\ graph' = graph
          /\ Saved(n)

(* graph.load() after the saves *)
LoadSaved ==
    /\ pc = "save"
    /\ graph' \in Load(disk)
    /\ pc' = "loaded"
    /\ UNCHANGED <<disk, gaps, deltas, changed_nodes, iteration, all_passing, proofs,
                   prev_gaps, max_iterations, output, exit_code, run, hist>>

NextSave == SaveByEngine \/ SaveByApplier \/ LoadSaved

SpecSave == InitSave /\ [][NextSave]_vars

(***************************************************************************)
(* Stores whose links are given by attribute lists, by edges, or not at    *)
(* all.                                                                     *)
(***************************************************************************)

(* an InteractionSpec that names change:a in its own depends_on list *)
IxD ==
    [BlankNode(<<"ix:", "d", "-read">>, "InteractionSpec") EXCEPT
        !.stmt = <<"Create operation via API">>, !.obs = TRUE, !.sec = TRUE,
        !.test = [mocks |-> TRUE, acc |-> TRUE],
        !.depends_on = <<ChangeSpecA.id>>]

(* the store that holds the given nodes and the given edge log *)
StoreWith(ns, edges) == [StoreOf(ns) EXCEPT !.edgelog = edges]

DependsOnStores == {StoreOf({IxD, ChangeSpecA}), StoreOf({IxD, ChangeSpecA, RequirementA})}

(* a ChangeSpec marked simple *)
ChangeSpecS ==
    [BlankNode(<<"change:", "s">>, "ChangeSpec") EXCEPT
        !.implements = <<<<"req:", "a">>>>, !.rollout_flag = TRUE, !.simple = TRUE]

SimpleStores ==
    {StoreOf({ChangeSpecS}), StoreOf({ChangeSpecS, ChangeSpecA}),
     StoreOf({ChangeSpecS, RequirementA}), StoreOf({ChangeSpecA, IxA})}

(* an api Contract whose statement says "idempotent" and "auth" *)
ContractI ==
    [BlankNode(<<"contract:api-", "i">>, "Contract") EXCEPT
        !.stmt = <<"idempotent retries with auth">>, !.versioning = TRUE]

ContractStores ==
    {StoreOf({ContractA}), StoreOf({ContractI}), StoreOf({ContractA, ContractI}),
     StoreOf({ContractA, RequirementA, ScenarioA})}

(* a chain scenario:h -> req:h -> change:h -> ix:h-read in which each hop is
   written as an attribute list entry, as an edge in the direction the engine
   writes it (lines 528, 532, 514), as both, or not at all *)
HopKinds == {"attr", "edge", "both", "none"}

ByAttr(kind, id) == IF kind \in {"attr", "both"} THEN <<id>> ELSE <<>>

ByEdge(kind, from, to, type) ==
    IF kind \in {"edge", "both"} THEN <<[from |-> from, to |-> to, type |-> type]>> ELSE <<>>

HopStore(h1, h2, h3) ==
    LET sc_id == <<"scenario:", "h">>
        req_id == <<"req:", "h">>
        cs_id == <<"change:", "h">>
        ix_id == <<"ix:", "h", "-read">>
    IN StoreWith(
         {[BlankNode(sc_id, "Scenario") EXCEPT
               !.stmt = <<TopicsPhrase>>, !.requirements = ByAttr(h1, req_id)],
          [BlankNode(req_id, "Requirement") EXCEPT !.change_specs = ByAttr(h2, cs_id)],
          [BlankNode(cs_id, "ChangeSpec") EXCEPT !.rollout_flag = TRUE, !.ix = ByAttr(h3, ix_id)],
          [IxD EXCEPT !.id = ix_id, !.depends_on = <<>>]},
         ByEdge(h1, sc_id, req_id, "traces_to")
             \o ByEdge(h2, cs_id, req_id, "implements")
             \o ByEdge(h3, ix_id, cs_id, "depends_on"))

HopStores == {HopStore(h1, h2, h3) : h1 \in HopKinds, h2 \in HopKinds, h3 \in HopKinds}

(* a Requirement req:r whose children are named in its attribute lists, joined
   to it by an edge, named but absent ("dangling"), or neither.  A Component
   may be joined by the traces_to edge the engine writes (lines 531, 699) or
   by a depends_on edge. *)
ChildKinds == {"attr", "edge", "dangling", "none"}

ComponentKinds == ChildKinds \cup {"depends"}

Named(kind, id) == IF kind \in {"attr", "dangling"} THEN <<id>> ELSE <<>>

Present(kind, node) == IF kind \in {"attr", "edge", "depends"} THEN {node} ELSE {}

ReqStore(k1, k2, k3) ==
    LET req_id == <<"req:", "r">>
        api_id == <<"contract:api-", "r">>
        data_id == <<"contract:data-", "r">>
        comp_id == <<"component:", "r">>
        cs_id == <<"change:", "r">>
    IN StoreWith(
         {[BlankNode(req_id, "Requirement") EXCEPT
               !.contracts = Named(k1, api_id) \o Named(k1, data_id),
               !.components = Named(k2, comp_id),
               !.change_specs = Named(k3, cs_id)]}
           \cup Present(k1, [MintApiContract(api_id, <<"r">>) EXCEPT !.versioning = TRUE])
           \cup Present(k1, [MintDataContract(data_id, <<"r">>) EXCEPT !.versioning = TRUE])
           \cup Present(k2, [MintComponent(comp_id, <<"r">>) EXCEPT !.observability = TRUE])
           \cup Present(k3, [BlankNode(cs_id, "ChangeSpec") EXCEPT
                                 !.rollout_flag = TRUE, !.simple = TRUE]),
         ByEdge(k1, req_id, api_id, "depends_on")
             \o ByEdge(k1, req_id, data_id, "depends_on")
             \o ByEdge(k2, req_id, comp_id, "traces_to")
             \o (IF k2 = "depends"
                 THEN <<[from |-> req_id, to |-> comp_id, type |-> "depends_on"]>> ELSE <<>>)
             \o ByEdge(k3, cs_id, req_id, "implements"))

ReqStores == {ReqStore(k1, k2, k3) : k1 \in ChildKinds, k2 \in ComponentKinds, k3 \in ChildKinds}

(* a Scenario whose traces_to edge to the Requirement phase A derives for it is
   already in the edge log *)
SeededEdge ==
    [from |-> ScenarioA.id, to |-> <<"req:", "a", "-baseline">>, type |-> "traces_to"]

EdgeStores == {StoreWith({ScenarioA}, <<SeededEdge>>), StoreWith({ScenarioA, IxA}, <<SeededEdge>>)}

LinkStores ==
    DependsOnStores \cup SimpleStores \cup ContractStores \cup HopStores \cup ReqStores
        \cup EdgeStores

InitLinks == InitOn(LinkStores)

SpecLinks == InitLinks /\ [][Next]_vars

(* the ix names an existing ChangeSpec in its depends_on list, no depends_on
   edge says so, and no Requirement lists that ChangeSpec *)
NamesChangeSpecOnly(g, ix_id) ==
    LET cs_id == FirstChangeSpec(g, g.nodes[ix_id].depends_on)
    IN /\ cs_id # <<>>
       /\ EdgesFrom(g, ix_id) = {}
       /\ \A r \in NodesByType(g, "Requirement") : cs_id \notin Range(r.change_specs)

(* C11: an InteractionSpec that names an existing ChangeSpec only in its own
   depends_on list is in IX_orphan before the pass and, once the deltas of the
   pass (phase D among them) are applied, is no longer in IX_orphan. *)
C11_PhaseDReattaches ==
    PassVerified =>
        \A ix_id \in hist.start_sets.IX_orphan :
            NamesChangeSpecOnly(hist.start_graph, ix_id) => ix_id \notin gaps.IX_orphan

(* C12: every ChangeSpec that is in C0 at the start of a pass has, after the
   pass, at least one existing InteractionSpec and is out of C0; a ChangeSpec
   marked simple is never in C0 and is given no InteractionSpec. *)
C12_PhaseBClosesC0 ==
    PassVerified =>
        /\ \A cs_id \in hist.start_sets.C0 :
               ValidIx(graph, cs_id) # {} /\ cs_id \notin gaps.C0
        /\ \A cs \in NodesByType(hist.start_graph, "ChangeSpec") :
               cs.simple =>
                   /\ cs.id \notin hist.start_sets.C0 \cup gaps.C0
                   /\ ValidIx(hist.start_graph, cs.id) = {} => ValidIx(graph, cs.id) = {}

(* the part of C12 about ChangeSpecs marked simple *)
C12_SimpleLeftAlone ==
    PassVerified =>
        \A cs \in NodesByType(hist.start_graph, "ChangeSpec") :
            cs.simple =>
                /\ cs.id \notin hist.start_sets.C0 \cup gaps.C0
                /\ ValidIx(hist.start_graph, cs.id) = {} => ValidIx(graph, cs.id) = {}

(* phase E run once more on the graph as it is now, for one Contract *)
PhaseEAgain(contract_id) ==
    PhaseEStep([g |-> graph, deltas |-> <<>>, changed |-> {}], contract_id)

(* C13: after the pass that applied phase E's update to a Contract of API_weak,
   the Contract is not in API_weak, and phase E run again on it emits no delta
   and leaves its statement as it is. *)
C13_PhaseEIdempotent ==
    PassVerified =>
        \A cid \in hist.start_sets.API_weak :
            /\ cid \notin gaps.API_weak
            /\ PhaseEAgain(cid).deltas = <<>>
            /\ PhaseEAgain(cid).g.nodes[cid].stmt = graph.nodes[cid].stmt

(* a Contract of API_weak whose statement the analyzer and phase E read
   differently has been rewritten by the pass *)
C13_ContractHardened ==
    /\ PassVerified
    /\ ContractI.id \in hist.start_sets.API_weak
    /\ HasNode(graph.nodes, ContractI.id)
    /\ graph.nodes[ContractI.id].stmt # ContractI.stmt

(* the term phase E appends for each of the six vocabulary terms, in the order
   of ApiTermPresent *)
HardeningTerms ==
    <<"AUTHZ(scopes)", "RATE LIMIT(quota tier)", "IDEMPOTENCY(key)", "TIMEOUTS(ms)",
      "ERROR TAXONOMY(codes)", "OBSERVABILITY(logs/metrics/spans)">>

(* C14: for every Contract of API_weak the statement after the pass is the old
   statement followed by exactly the terms the analyzer counted as missing, one
   each, and by no term the analyzer counted as present. *)
C14_AppendsMissingTerms ==
    PassVerified =>
        \A cid \in hist.start_sets.API_weak :
            LET old == hist.start_graph.nodes[cid].stmt
                new == graph.nodes[cid].stmt
                added == SubSeq(new, Len(old) + 1, Len(new))
            IN /\ Len(new) >= Len(old)
               /\ SubSeq(new, 1, Len(old)) = old
               /\ Len(added) = MissingCount(old)
               /\ Range(added) = {HardeningTerms[i] : i \in {j \in 1..6 : ~ApiTermPresent(old)[j]}}

(* the Scenario has an existing Test node attached, by its tests list or by a
   traces_to edge *)
TestAttached(g, scenario_id) ==
    \E t \in IdsByType(g, "Test") :
        \/ t \in Range(g.nodes[scenario_id].tests)
        \/ \E e \in EdgesFrom(g, scenario_id) : e.to = t /\ e.type = "traces_to"

(* the Scenarios that had no test when the pass started *)
LackedTest == {sc.id : sc \in {x \in NodesByType(hist.start_graph, "Scenario") : x.tests = <<>>}}

(* C15: after a pass, every Scenario that had no test at its start has a Test
   node attached and passes P5's test (a non-empty tests list). *)
C15_PhaseFCoversScenarios ==
    PassVerified =>
        \A sc_id \in LackedTest :
            /\ TestAttached(graph, sc_id)
            /\ graph.nodes[sc_id].tests # <<>>

(* the part of C15 about the Test node alone *)
C15_TestNodeAttached == PassVerified => \A sc_id \in LackedTest : TestAttached(graph, sc_id)

(* the gap sets are those of the graph as loaded for this pass *)
Analysed == pc = "emit"

(* one hop of the chain, read from the attribute list or from an edge in the
   direction the engine writes it *)
HopScenarioRequirement(g, sc_id, req_id) ==
    \/ req_id \in Range(g.nodes[sc_id].requirements)
    \/ \E e \in EdgesFrom(g, sc_id) : e.to = req_id /\ e.type = "traces_to"

HopRequirementChangeSpec(g, req_id, cs_id) ==
    \/ cs_id \in Range(g.nodes[req_id].change_specs)
    \/ \E e \in EdgesFrom(g, cs_id) : e.to = req_id /\ e.type = "implements"

HopChangeSpecIx(g, cs_id, ix_id) ==
    \/ ix_id \in Range(g.nodes[cs_id].ix)
    \/ \E e \in EdgesFrom(g, ix_id) : e.to = cs_id /\ e.type = "depends_on"

(* the existing InteractionSpecs a Scenario reaches over existing nodes *)
ChainReach(g, sc_id) ==
    {ix_id \in IdsByType(g, "InteractionSpec") :
        \E req_id \in IdsByType(g, "Requirement"), cs_id \in IdsByType(g, "ChangeSpec") :
            /\ HopScenarioRequirement(g, sc_id, req_id)
            /\ HopRequirementChangeSpec(g, req_id, cs_id)
            /\ HopChangeSpecIx(g, cs_id, ix_id)}

(* C16: a Scenario is in S0 exactly when it reaches no existing InteractionSpec
   through Scenario -> Requirement -> ChangeSpec -> InteractionSpec, each hop
   given by its attribute list, by an edge as the engine writes it, or both. *)
C16_S0IffNoReach ==
    Analysed =>
        \A sc_id \in IdsByType(graph, "Scenario") :
            sc_id \in gaps.S0 <=> ChainReach(graph, sc_id) = {}

(* the existing Scenarios that reach an InteractionSpec over existing nodes *)
ReachedBy(g, ix_id) == {sc_id \in IdsByType(g, "Scenario") : ix_id \in ChainReach(g, sc_id)}

(* C17: an InteractionSpec is in IX_orphan exactly when no Scenario reaches it
   through the full chain, each hop read from attribute lists and store edges
   together. *)
C17_OrphanIffUnreached ==
    Analysed =>
        \A ix_id \in IdsByType(graph, "InteractionSpec") :
            ix_id \in gaps.IX_orphan <=> ReachedBy(graph, ix_id) = {}

(* the half of C17 that the analysis keeps: an InteractionSpec no Scenario
   reaches is in IX_orphan *)
C17_UnreachedIsOrphan ==
    Analysed =>
        \A ix_id \in IdsByType(graph, "InteractionSpec") :
            ReachedBy(graph, ix_id) = {} => ix_id \in gaps.IX_orphan

(* the half of C16 that the analysis keeps: a Scenario that reaches nothing is
   in S0 *)
C16_NoReachIsS0 ==
    Analysed =>
        \A sc_id \in IdsByType(graph, "Scenario") :
            ChainReach(graph, sc_id) = {} => sc_id \in gaps.S0

(* the existing nodes of one type that a Requirement names in an attribute
   list or is joined to by an edge *)
ContractsOf(g, req_id) ==
    {c \in IdsByType(g, "Contract") :
        \/ c \in Range(g.nodes[req_id].contracts)
        \/ \E e \in EdgesFrom(g, req_id) : e.to = c}

ComponentsOf(g, req_id) ==
    {c \in IdsByType(g, "Component") :
        \/ c \in Range(g.nodes[req_id].components)
        \/ \E e \in EdgesFrom(g, req_id) : e.to = c}

ChangeSpecsOf(g, req_id) ==
    {c \in IdsByType(g, "ChangeSpec") :
        \/ c \in Range(g.nodes[req_id].change_specs)
        \/ \E e \in EdgesFrom(g, c) : e.to = req_id}

Complete(g, req_id) ==
    /\ \E c \in ContractsOf(g, req_id) : HasApi(c)
    /\ \E c \in ContractsOf(g, req_id) : HasData(c)
    /\ ComponentsOf(g, req_id) # {}
    /\ ChangeSpecsOf(g, req_id) # {}

(* C18: a Requirement is in R0 exactly when, among the nodes its attribute
   lists name and its edges join it to, an existing api Contract, data
   Contract, Component or ChangeSpec is lacking; an id that names no node
   counts as absent. *)
C18_R0IffChildLacking ==
    Analysed =>
        \A req_id \in IdsByType(graph, "Requirement") :
            req_id \in gaps.R0 <=> ~Complete(graph, req_id)

(* the half of C18 that the analysis keeps: a Requirement that lacks a child
   is in R0, dangling references included *)
C18_LackingIsR0 ==
    Analysed =>
        \A req_id \in IdsByType(graph, "Requirement") :
            ~Complete(graph, req_id) => req_id \in gaps.R0

(* the record saved last under an id *)
LastSaved(id) ==
    hist.saved[CHOOSE i \in 1..Len(hist.saved) :
                  /\ hist.saved[i].id = id
                  /\ \A j \in 1..Len(hist.saved) : hist.saved[j].id = id => j <= i]

(* C19: saving is an upsert keyed by node id: after nodes of one type were
   saved under distinct ids, a load returns every one of them with the record
   saved last under its id, also for ids that differ only in characters the
   sanitizer replaces or only beyond the truncation length. *)
C19_SaveIsUpsert ==
    pc = "loaded" =>
        \A id \in {hist.saved[i].id : i \in 1..Len(hist.saved)} :
            HasNode(graph.nodes, id) /\ graph.nodes[id] = LastSaved(id)

(* the same for PlanGraph.save_node alone and ids that differ only beyond the
   truncation length *)
C19_EngineLongIds ==
    (/\ pc = "loaded"
     /\ disk.files = StoreOf(Range(hist.saved)).files
     /\ \A i \in 1..Len(hist.saved) : Len(hist.saved[i].id) = 3) =>
        \A id \in {hist.saved[i].id : i \in 1..Len(hist.saved)} :
            HasNode(graph.nodes, id) /\ graph.nodes[id] = LastSaved(id)

IsPrefix(s, t) == Len(s) <= Len(t) /\ SubSeq(t, 1, Len(s)) = s

SameTriple(e, f) == e.from = f.from /\ e.to = f.to /\ e.type = f.type

NoDuplicateTriples(log) ==
    \A i, j \in 1..Len(log) : SameTriple(log[i], log[j]) => i = j

(* C20: with the engine as the only writer and an edge log that starts without
   duplicate triples, the log is at every moment an extension of the log before
   the run and holds each (from, to, type) triple at most once. *)
C20_EdgeLogAppendOnly ==
    /\ IsPrefix(hist.start_disk.edgelog, disk.edgelog)
    /\ NoDuplicateTriples(disk.edgelog)

(* a run that started on a non-empty log has appended edges and has skipped an
   add_edge delta whose triple was already there *)
C20_DuplicateSuppressed ==
    /\ hist.suppressed > 0
    /\ hist.start_disk.edgelog # <<>>
    /\ Len(disk.edgelog) > Len(hist.start_disk.edgelog)

(***************************************************************************)
(* A second engine instance on the same plan directory.  Its pass (load,   *)
(* analysis, phases A-F, apply) falls between the load and the apply of    *)
(* the first instance's pass.                                               *)
(***************************************************************************)

(* _emit_delta_bundle() as a whole: the states it can end in, one per order in
   which the loops visit their sets *)
EmitAll(g, sets) ==
    LET s0 == [g |-> g, deltas |-> <<>>, changed |-> {}]
        a == {PhaseA(s0, o) : o \in SetToSeqs(sets.S0)}
        b == UNION {{PhaseB(e, o) : o \in SetToSeqs(sets.C0)} : e \in a}
        c == UNION {{PhaseC(e, o) : o \in SetToSeqs(sets.R0)} : e \in b}
        d == UNION {{PhaseD(e, o) : o \in SetToSeqs(sets.IX_orphan)} : e \in c}
        e5 == UNION {{PhaseE(e, o) : o \in SetToSeqs(sets.API_weak)} : e \in d}
    IN UNION {{PhaseFIx(PhaseFScenarios(e, sc), ix) :
                  sc \in SetToSeqs(IdsByType(e.g, "Scenario")),
                  ix \in SetToSeqs(IdsByType(e.g, "InteractionSpec"))} : e \in e5}

(* after applying: the loop stops on no progress or when every proof holds *)
StopAfter(g, sets) ==
    LET p == RunProofs(g)
    IN NoProgressBreak(GapSizes(p.details), GapSizes(sets), <<>>) \/ AllPassing(p)

(* one pass of verify_and_repair on the store d: the store it leaves and
   whether the loop ends with it *)
PassOf(d) ==
    UNION {LET sets == ComputeSets(g) IN
           IF TotalGaps(sets) = 0 THEN {[disk |-> d, stop |-> TRUE]}
           ELSE UNION {IF es.deltas = <<>> THEN {[disk |-> d, stop |-> TRUE]}
                       ELSE LET r == ApplyDeltas(d, es.g, es.deltas)
                            IN {[disk |-> r.disk, stop |-> StopAfter(g2, sets)] :
                                   g2 \in Load(r.disk)} : es \in EmitAll(g, sets)}
           : g \in Load(d)}

RECURSIVE RunDisks(_, _)
(* the stores one undisturbed run with budget n can leave *)
RunDisks(d, n) ==
    IF n = 0 THEN {d}
    ELSE UNION {IF o.stop THEN {o.disk} ELSE RunDisks(o.disk, n - 1) : o \in PassOf(d)}

OtherEnginePass ==
    /\ pc \in {"compute", "emit", "emitB", "emitC", "emitD", "emitE", "emitF", "emitted"}
    /\ hist.ext_writes < MaxExternalWrites
    /\ \E o \in PassOf(disk) : disk' = o.disk
    /\ hist' = [hist EXCEPT !.ext_writes = @ + 1]
    /\ UNCHANGED <<graph, gaps, deltas, changed_nodes, iteration, all_passing, proofs,
                   prev_gaps, max_iterations, output, exit_code, pc, run>>

TwoStores == {StoreOf(loose) : loose \in SUBSET {ScenarioA, RequirementA, ContractA}}

InitTwo == InitOn(TwoStores)

NextTwo == Next \/ OtherEnginePass

SpecTwo == InitTwo /\ [][NextTwo]_vars

NodeIds(d) == {d.files[k].id : k \in DOMAIN d.files}

(* C21: when a second engine instance runs a pass between the load and the
   apply of this instance, the store at the end of the run holds the same
   nodes as after a run of one instance alone, and its edge log holds no
   (from, to, type) triple twice. *)
C21_InterleavingHarmless ==
    (RunEnded /\ run = 1 /\ hist.ext_writes > 0) =>
        /\ NoDuplicateTriples(disk.edgelog)
        /\ NodeIds(disk) \in {NodeIds(d) : d \in RunDisks(hist.start_disk, max_iterations)}

(* the part of C21 about the nodes *)
C21_SameNodes ==
    (RunEnded /\ run = 1 /\ hist.ext_writes > 0) =>
        NodeIds(disk) \in {NodeIds(d) : d \in RunDisks(hist.start_disk, max_iterations)}

(***************************************************************************)
(* A write to the plan directory fails while _apply_deltas() is running.   *)
(* save_node() and the append to edges.ndjson open the file without any    *)
(* try/except, and neither _apply_deltas(), verify_and_repair() nor main() *)
(* catches, so the error ends the process.                                  *)
(***************************************************************************)
MaxFailures == 1        \* writes that fail, over all runs on a store

IsAddNode(d) == d.op = "add_node"

IsAddEdge(d) == d.op = "add_edge"

IsUpdateNode(d) == d.op = "update_node"

(* variant: the deltas are persisted in the order they were emitted *)
PersistOrderAsEmitted(ds) == ds

(* the order in which the three loops of _apply_deltas() reach the deltas *)
PersistOrder(ds) ==
    SelectSeq(ds, IsAddNode) \o SelectSeq(ds, IsAddEdge) \o SelectSeq(ds, IsUpdateNode)

(* the store and the in-memory graph once the first k deltas have been reached *)
AppliedUpTo(d, g, ds, k) == ApplyDeltas(d, g, SubSeq(PersistOrder(ds), 1, k))

(* the delta opens a file: every save_node does, an add_edge only for a new triple *)
Writes(g, d) == d.op = "add_edge" => ~EdgeExists(g.edges, d)

(* variant: the error is swallowed and the loop goes on *)
AfterWriteErrorSwallowed == "reload"

(* the exception leaves verify_and_repair() *)
AfterWriteError == "raised"

WriteFails ==
    /\ pc = "emitted"
    /\ Len(deltas) # 0
    /\ hist.failed < MaxFailures
    /\ \E k \in 0..(Len(deltas) - 1) :
          LET r == AppliedUpTo(disk, graph, deltas, k)
          IN /\ Writes(r.graph, PersistOrder(deltas)[k + 1])
             /\ disk' = r.disk
             /\ graph' = r.graph
             /\ hist' = [hist EXCEPT !.failed = @ + 1, !.fail_run = run, !.fail_at = k,
                                     !.fail_order = PersistOrder(deltas),
                                     !.fail_emitted = deltas,
                                     !.fail_disk = r.disk,
                                     !.applied = @ \cup Range(SubSeq(PersistOrder(deltas), 1, k))]
    /\ deltas' = <<>>
    /\ pc' = AfterWriteError
    /\ UNCHANGED <<gaps, changed_nodes, iteration, all_passing, proofs, prev_gaps,
                   max_iterations, output, exit_code, run>>

FailStores == {StoreOf(loose) : loose \in SUBSET {ScenarioA, RequirementA, ChangeSpecA}}

InitFail == InitOn(FailStores)

NextFail == Next \/ WriteFails

SpecFail == InitFail /\ [][NextFail]_vars

CoreGaps(sets) == sets.S0 \cup sets.R0 \cup sets.C0

(* C22: after a run whose apply was cut short, a complete run on the store
   it left closes the S0, R0 and C0 gaps as a run on the original store
   does: no Scenario, Requirement or ChangeSpec is left in S0, R0 or C0
   that an undisturbed run with the same budget would have repaired. *)
C22_PartialApplyRepaired ==
    (run = 2 /\ hist.fail_run = 1 /\ pc = "returned") =>
        \A g \in Load(disk) :
            \E d \in RunDisks(hist.first_disk, max_iterations) :
                \E g0 \in Load(d) : CoreGaps(ComputeSets(g)) \subseteq CoreGaps(ComputeSets(g0))

(* the i-th delta reached before the failure is in the store d as written *)
PersistedAsWritten(d, order, i, k) ==
    IF order[i].op = "add_edge" THEN EdgeExists(d.edgelog, order[i])
    ELSE LET f == NodeFile(order[i].node.id, order[i].node)
         IN /\ f \in DOMAIN d.files
            /\ \/ d.files[f] = order[i].node
               \/ \E j \in (i + 1)..k :
                     /\ order[j].op # "add_edge"
                     /\ NodeFile(order[j].node.id, order[j].node) = f

(* C23: when a write fails while the deltas of a pass are applied, the run
   ends with the error: no later delta is applied and no further pass
   starts (the store stays as the failure left it), no report is returned
   and the exit status is not 0, and every node and edge written before the
   failure is in the store as written. *)
C23_WriteFailureAborts ==
    hist.fail_run = run =>
        /\ pc \in {"raised", "exited"}
        /\ output = NoOutput
        /\ exit_code # 0
        /\ disk = hist.fail_disk
        /\ \A i \in 1..hist.fail_at :
              PersistedAsWritten(disk, hist.fail_order, i, hist.fail_at)

C23_FailedAfterWrites ==
    /\ hist.fail_run = run
    /\ pc = "exited"
    /\ exit_code = 1
    /\ hist.fail_at >= 2
    /\ \E i \in 1..hist.fail_at : hist.fail_order[i].op = "add_edge"
    /\ disk # hist.start_disk

(***************************************************************************)
(* Stores with a hand-written node whose file name is the one save_node()  *)
(* derives for a node the engine mints.                                     *)
(***************************************************************************)
HandComponent == [BlankNode(<<"component-", "a">>, "Component") EXCEPT !.status = "Ready"]

ReadyRequirement == [RequirementA EXCEPT !.status = "Ready"]

(* a node another tool wrote, with a key the engine does not know *)
Foreign(n) == [n EXCEPT !.extra = <<"owner">>]

IxBare == BlankNode(<<"ix:", "a", IxSuffix>>, "InteractionSpec")

ForeignStores ==
    {StoreOf({Foreign(n)}) : n \in {ScenarioA, RequirementA, ChangeSpecA, ContractI, IxBare}}
        \cup {StoreOf({Foreign(ChangeSpecA), Foreign(IxBare)})}

FrameStores ==
    TwoStores \cup FailStores \cup ForeignStores
        \cup {StoreOf({RequirementA, HandComponent}), StoreOf({ReadyRequirement, ChangeSpecA})}

InitFrame == InitOn(FrameStores)

SpecFrame == InitFrame /\ [][Next]_vars

(* C24: a pass neither deletes a node nor changes the status of an existing
   one: every node id loaded at the start of a pass is in the store after
   the pass with the same status, and no node has become Retired. *)
C24_NodesAndStatusKept ==
    (pc = "verify" /\ hist.pass_deltas >= 1) =>
        /\ \A id \in DOMAIN hist.start_graph.nodes :
              /\ id \in DOMAIN graph.nodes
              /\ graph.nodes[id].status = hist.start_graph.nodes[id].status
        /\ \A id \in DOMAIN graph.nodes :
              graph.nodes[id].status = "Retired" =>
                  /\ id \in DOMAIN hist.start_graph.nodes
                  /\ hist.start_graph.nodes[id].status = "Retired"

(* the same, for the nodes whose file name no minted node shares *)
C24_StatusKept ==
    (pc = "verify" /\ hist.pass_deltas >= 1) =>
        \A id \in DOMAIN hist.start_graph.nodes \cap DOMAIN graph.nodes :
            graph.nodes[id].status = hist.start_graph.nodes[id].status

(* the keys in which two records of the same node differ *)
Differs(n, m) == {f \in DOMAIN n : n[f] # m[f]}

UpdatesOfLoaded ==
    {i \in 1..Len(deltas) : /\ deltas[i].op = "update_node"
                            /\ deltas[i].node.id \in DOMAIN hist.start_graph.nodes}

(* C25: every update_node delta of phases A-F carries the node as it was
   loaded, every key with its value, unknown keys included, except for one
   field out of requirements, change_specs, ix, stmt and test. *)
C25_UpdateKeepsOtherKeys ==
    pc = "emitted" =>
        \A i \in UpdatesOfLoaded :
            LET changed == Differs(deltas[i].node, hist.start_graph.nodes[deltas[i].node.id])
            IN /\ changed \subseteq {"requirements", "change_specs", "ix", "stmt", "test"}
               /\ Cardinality(changed) <= 1

(* C25, amended: every update_node delta of phases A-F carries the node as it
   was loaded, every key with its value, unknown keys included, except for
   the fields the phases extend: the child lists requirements, contracts,
   components, change_specs and ix, and stmt and test. *)
C25_UpdateKeepsUntargetedKeys ==
    pc = "emitted" =>
        \A i \in UpdatesOfLoaded :
            Differs(deltas[i].node, hist.start_graph.nodes[deltas[i].node.id])
                \subseteq {"requirements", "contracts", "components", "change_specs",
                           "ix", "stmt", "test"}

C25_ForeignNodeUpdated ==
    /\ pc = "emitted"
    /\ \E i \in UpdatesOfLoaded :
          /\ deltas[i].node.extra = <<"owner">>
          /\ deltas[i].node.type = "Contract"
          /\ deltas[i].node # hist.start_graph.nodes[deltas[i].node.id]

(* C26: within a pass every add_node delta is persisted before any add_edge
   or update_node delta of the pass: whenever the apply stops with an
   add_edge or update_node delta already reached, every add_node delta of
   the pass has been reached and its node is in the store, whatever the
   order in which the phases emitted the deltas. *)
C26_NodesPersistedFirst ==
    hist.fail_run = run =>
        LET order == hist.fail_order
            k == hist.fail_at
        IN (\E i \in 1..k : order[i].op \in {"add_edge", "update_node"}) =>
               \A j \in 1..Len(order) :
                   order[j].op = "add_node" =>
                       /\ j <= k
                       /\ NodeFile(order[j].node.id, order[j].node) \in DOMAIN disk.files

(* the apply stopped after an edge was written, in a pass whose phases emitted
   an add_edge before an add_node *)
C26_StoppedAfterEdge ==
    /\ hist.fail_run = run
    /\ \E i \in 1..hist.fail_at : hist.fail_order[i].op = "add_edge"
    /\ \E i, j \in 1..Len(hist.fail_emitted) :
          /\ i < j
          /\ hist.fail_emitted[i].op = "add_edge"
          /\ hist.fail_emitted[j].op = "add_node"
    /\ Len(disk.edgelog) > Len(hist.start_disk.edgelog)

(* C27: the delta list of the returned report contains every delta that was
   applied in any pass of the run. *)
C27_ReportListsAppliedDeltas ==
    pc = "returned" => hist.applied \subseteq Range(output.deltas)

(* C28: a run on an empty store creates no node and no edge and applies no
   delta, and it ends with a report in which P1 is false and not every
   invariant passes (Exhausted, not Converged). *)
C28_EmptyStoreExhausted ==
    (run = 1 /\ hist.first_disk = StoreOf({}) /\ RunEnded) =>
        /\ disk = StoreOf({})
        /\ hist.emitted = 0
        /\ hist.applied = {}
        /\ pc = "returned"
        /\ output.returned
        /\ ~output.proofs.P[1]
        /\ ~AllPassing(output.proofs)

(* the part of C28 about the store *)
C28_EmptyStoreUntouched ==
    (run = 1 /\ hist.first_disk = StoreOf({}) /\ RunEnded) =>
        disk = StoreOf({}) /\ hist.emitted = 0 /\ hist.applied = {}

(* req_base = req_id.replace("req:", "").replace(":", "-") *)
ReqBase(req_id) == ReplaceColons(Remove(req_id, "req:"))

ApiContractId(req_id) == <<"contract:api-">> \o ReqBase(req_id)

DataContractId(req_id) == <<"contract:data-">> \o ReqBase(req_id)

(* the Requirements of graph g without any Contract, by attribute or by edge *)
WithoutContracts(g) ==
    {r \in IdsByType(g, "Requirement") :
        g.nodes[r].contracts = <<>> /\ AllContracts(g, r) = {}}

MintedContracts(ds) ==
    {i \in 1..Len(ds) : ds[i].op = "add_node" /\ ds[i].node.type = "Contract"}

(* the Contracts the deltas ds add and tie to the Requirement r *)
ContractsFor(ds, r) ==
    {i \in MintedContracts(ds) :
        \E j \in 1..Len(ds) : /\ ds[j].op = "add_edge"
                              /\ ds[j].from = r
                              /\ ds[j].to = ds[i].node.id}

(* what phase C adds to self.deltas in the step from emitC to emitD *)
EmittedByPhaseC == SubSeq(deltas', Len(deltas) + 1, Len(deltas'))

(* C29: for a Requirement without contracts, phase C emits exactly one api
   Contract, contract:api-<slug>, and exactly one data Contract,
   contract:data-<slug>, the slug computed from the Requirement's id alone,
   and no other Contract for it; in a later pass or run on the result no
   phase emits a Contract for that Requirement. *)
C29_OneApiOneDataContract ==
    [][/\ (pc = "emitC" /\ pc' = "emitD") =>
              \A r \in WithoutContracts(hist.start_graph) :
                  /\ Cardinality({i \in MintedContracts(EmittedByPhaseC) :
                                     EmittedByPhaseC[i].node.id = ApiContractId(r)}) = 1
                  /\ Cardinality({i \in MintedContracts(EmittedByPhaseC) :
                                     EmittedByPhaseC[i].node.id = DataContractId(r)}) = 1
                  /\ {EmittedByPhaseC[i].node.id : i \in ContractsFor(EmittedByPhaseC, r)}
                        = {ApiContractId(r), DataContractId(r)}
       /\ (pc = "emitF" /\ pc' = "emitted" /\ (run = 2 \/ iteration >= 2)) =>
              \A g0 \in Load(hist.first_disk) :
                  \A r \in WithoutContracts(g0) :
                      /\ ContractsFor(deltas', r) = {}
                      /\ \A i \in MintedContracts(deltas') :
                            deltas'[i].node.id \notin {ApiContractId(r), DataContractId(r)}]_vars

C29_ContractsMinted ==
    /\ pc = "emitted"
    /\ run = 1
    /\ iteration = 1
    /\ \E r \in WithoutContracts(hist.start_graph) :
          /\ ReqBase(r) = <<"r">>
          /\ Cardinality(ContractsFor(deltas, r)) = 2

C29_RerunOnResult ==
    /\ pc = "emitted"
    /\ run = 2
    /\ Len(deltas) > 0
    /\ \E g0 \in Load(hist.first_disk) : WithoutContracts(g0) # {}
    /\ WithoutContracts(hist.start_graph) = {}

(***************************************************************************)
(* Reading a plan directory that holds damaged records.  Here disk holds   *)
(* the files as they are: each node file and each line of edges.ndjson     *)
(* with what reading it gives.                                              *)
(*   "json"        an object                                                *)
(*   "list"        JSON, but not an object                                  *)
(*   "truncated"   not JSON (json.load raises JSONDecodeError)               *)
(*   "undecodable" not UTF-8 (reading the text raises UnicodeDecodeError)   *)
(***************************************************************************)
RawFile(kind, node) == [kind |-> kind, node |-> node]

RawLine(kind, edge) == [kind |-> kind, edge |-> edge]

NoEdge == [from |-> <<>>, to |-> <<>>, type |-> ""]

WellFormed(ns) ==
    [k \in {NodeFile(n.id, n) : n \in ns} |->
        RawFile("json", CHOOSE n \in ns : NodeFile(n.id, n) = k)]

DamagedFiles ==
    {RawFile("truncated", NoNode), RawFile("undecodable", NoNode), RawFile("list", NoNode),
     RawFile("json", BlankNode(<<>>, "Scenario"))}

DamagedLines == {RawLine("truncated", NoEdge), RawLine("undecodable", NoEdge)}

GoodLine ==
    RawLine("json", [from |-> RequirementA.id, to |-> ContractA.id, type |-> "depends_on"])

(* the damaged file is nodes/Scenario/x.json *)
DamagedName == <<"Scenario", [kept |-> <<"x">>, cut |-> 0, md5 |-> <<>>]>>

RawStore(ns, bad_files, lines) ==
    [files |-> [k \in DOMAIN WellFormed(ns) \cup {DamagedName : b \in bad_files} |->
                   IF k \in DOMAIN WellFormed(ns) THEN WellFormed(ns)[k]
                   ELSE CHOOSE b \in bad_files : TRUE],
     edgelog |-> lines]

RawStores ==
    {RawStore(ns, bad, lines) :
        ns \in SUBSET {ScenarioA, RequirementA, ContractA},
        bad \in {{}} \cup {{b} : b \in DamagedFiles},
        lines \in {<<>>, <<GoodLine>>} \cup {<<GoodLine, l>> : l \in DamagedLines}
                     \cup {<<l, GoodLine>> : l \in DamagedLines}}

IsJsonLine(l) == l.kind = "json"

ParsedLines(lines) ==
    LET good == SelectSeq(lines, IsJsonLine) IN [i \in 1..Len(good) |-> good[i].edge]

(* the files PlanGraph.load gets a dict from, and the lines it gets an edge from:
   json.load and node.get inside try/except *)
Parsed(raw) ==
    [files |-> [k \in {x \in DOMAIN raw.files : raw.files[x].kind = "json"} |->
                   raw.files[k].node],
     edgelog |-> ParsedLines(raw.edgelog)]

Undecodable(lines) == \E i \in 1..Len(lines) : lines[i].kind = "undecodable"

(* PlanGraph.load on the files as they are: 'for line in f' decodes the file
   outside the try statement *)
PlanGraphLoad(raw) ==
    IF Undecodable(raw.edgelog) THEN {[raised |-> TRUE, graph |-> EmptyGraph]}
    ELSE {[raised |-> FALSE, graph |-> g] : g \in Load(Parsed(raw))}

(* MinimalDeltaApplier._load_graph: graph["nodes"][node.get("id")] = node for every
   file that parses to an object; edges_file.read_text() outside the try
   statement.  A missing id is the key None, written <<>> here. *)
ApplierLoadGraph(raw) ==
    IF Undecodable(raw.edgelog) THEN {[raised |-> TRUE, graph |-> EmptyGraph]}
    ELSE LET p == Parsed(raw)
             ids == {p.files[k].id : k \in DOMAIN p.files}
         IN {[raised |-> FALSE,
              graph |-> [nodes |-> m, node_by_type |-> [t \in NodeTypes |-> {}],
                         edges |-> p.edgelog]] : m \in NodeMaps(p.files, ids)}

(* close_p2: the InteractionSpecs counted into ix_count for a Scenario (ix_count is
   the sum of len(all_ix), so it is 0 exactly when none is counted) *)
ApplierCountedIx(g, scenario) ==
    (UNION {
        UNION {Range(g.nodes[cs_id].ix)
                  \cup {e.from : e \in {x \in Range(g.edges) :
                                           /\ x.from # <<>>
                                           /\ x.to = cs_id
                                           /\ IsType(g, x.from, "InteractionSpec")}}
               : cs_id \in {c \in Range(g.nodes[req_id].change_specs)
                                  \cup {e.to : e \in {x \in Range(g.edges) :
                                                         /\ x.from = req_id
                                                         /\ x.type = "implements"
                                                         /\ IsType(g, x.to, "ChangeSpec")}}
                            : HasNode(g.nodes, c)}}
        : req_id \in {r \in Range(scenario.requirements) : HasNode(g.nodes, r)}})

(* if ix_count == 0: empty_scenarios.append(scenario_id) *)
ApplierEmptyScenarios(g) ==
    {n.id : n \in {g.nodes[x] : x \in {y \in DOMAIN g.nodes :
                                          /\ g.nodes[y].type = "Scenario"
                                          /\ ApplierCountedIx(g, g.nodes[y]) = {}}}}

InitLoad ==
    /\ disk \in RawStores
    /\ graph = EmptyGraph
    /\ gaps = NoGaps
    /\ deltas = <<>>
    /\ changed_nodes = {}
    /\ iteration = 0
    /\ all_passing = FALSE
    /\ proofs = Unbound
    /\ prev_gaps = GapSizes(NoGaps)
    /\ max_iterations = 1
    /\ output = NoOutput
    /\ exit_code = -1
    /\ pc = "start"
    /\ run = 1
    /\ hist = NoHist(disk)

(* graph = PlanGraph(plan_dir) *)
EngineLoads ==
    /\ pc = "start"
    /\ \E o \in PlanGraphLoad(disk) :
          /\ graph' = o.graph
          /\ pc' = IF o.raised THEN "raised" ELSE "loaded"
    /\ UNCHANGED <<disk, gaps, deltas, changed_nodes, iteration, all_passing, proofs,
                   prev_gaps, max_iterations, output, exit_code, run, hist>>

(* the pass goes on with the gap analysis *)
EngineAnalyzes ==
    /\ pc = "loaded"
    /\ gaps' = ComputeSets(graph)
    /\ pc' = "analysed"
    /\ UNCHANGED <<disk, graph, deltas, changed_nodes, iteration, all_passing, proofs,
                   prev_gaps, max_iterations, output, exit_code, run, hist>>

(* applier = MinimalDeltaApplier(plan_dir) *)
ApplierLoads ==
    /\ pc = "start"
    /\ \E o \in ApplierLoadGraph(disk) :
          /\ graph' = o.graph
          /\ pc' = IF o.raised THEN "applier_raised" ELSE "applier_loaded"
    /\ UNCHANGED <<disk, gaps, deltas, changed_nodes, iteration, all_passing, proofs,
                   prev_gaps, max_iterations, output, exit_code, run, hist>>

(* close_p2 up to s_base = self._sanitize_id(scenario_id.replace("scenario:", "")),
   which raises AttributeError when scenario_id is None *)
ApplierClosesP2 ==
    /\ pc = "applier_loaded"
    /\ pc' = IF <<>> \in ApplierEmptyScenarios(graph) THEN "applier_raised" ELSE "applier_p2"
    /\ UNCHANGED <<disk, graph, gaps, deltas, changed_nodes, iteration, all_passing, proofs,
                   prev_gaps, max_iterations, output, exit_code, run, hist>>

NextLoad == EngineLoads \/ EngineAnalyzes \/ ApplierLoads \/ ApplierClosesP2

SpecLoad == InitLoad /\ [][NextLoad]_vars

(* what a load has to give: the well-formed records with an id, the parsable lines *)
WellFormedNodes(raw) ==
    {raw.files[k].node : k \in {x \in DOMAIN raw.files :
                                   raw.files[x].kind = "json" /\ raw.files[x].node.id # <<>>}}

LoadedAsExpected(g, raw) ==
    /\ {g.nodes[id] : id \in DOMAIN g.nodes} = WellFormedNodes(raw)
    /\ DOMAIN g.nodes = {n.id : n \in WellFormedNodes(raw)}
    /\ g.edges = ParsedLines(raw.edgelog)

(* C30: loading skips every node record that cannot be parsed or has no id
   and every edge line that cannot be parsed, without raising: the load ends
   with exactly the well-formed records, and the step after it runs.  This
   holds for PlanGraph.load and for MinimalDeltaApplier._load_graph. *)
C30_LoadSkipsDamagedRecords ==
    /\ pc \notin {"raised", "applier_raised"}
    /\ pc \in {"loaded", "analysed", "applier_loaded", "applier_p2"} =>
          LoadedAsExpected(graph, disk)

(* the part of C30 that holds: PlanGraph.load with damaged node files and
   truncated lines *)
C30_EngineSkipsWhatItCanDecode ==
    ~Undecodable(disk.edgelog) =>
        /\ pc # "raised"
        /\ pc \in {"loaded", "analysed"} => LoadedAsExpected(graph, disk)

(* the Requirements a Scenario names or has a traces_to edge to, that exist *)
RequirementsOfScenario(g, sc_id) ==
    {r \in Range(g.nodes[sc_id].requirements)
          \cup {e.to : e \in {x \in EdgesFrom(g, sc_id) : x.type = "traces_to"}} :
        IsType(g, r, "Requirement")}

FullyExpanded(g) ==
    /\ ComputeR0(g) = {}
    /\ ComputeC0(g) = {}
    /\ \A sc_id \in IdsByType(g, "Scenario") : RequirementsOfScenario(g, sc_id) # {}

ProofsRun == pc \in {"output", "returned"} /\ proofs.bound

(* C31: the reported P9 is true exactly when every Requirement has an
   existing api Contract, data Contract, Component and ChangeSpec, every
   ChangeSpec not marked simple has an existing InteractionSpec and every
   Scenario has a Requirement; P9 true implies that R0 and C0 are empty. *)
C31_P9IffExpanded ==
    ProofsRun =>
        /\ proofs.P[9] <=> FullyExpanded(graph)
        /\ proofs.P[9] => proofs.details.R0 = {} /\ proofs.details.C0 = {}

(* C32: the reported P4 is true exactly when every InteractionSpec of the
   graph carries the security fields (authorization, least privilege, PII
   sensitivity). *)
C32_P4IffIxSecurity ==
    ProofsRun =>
        (proofs.P[4] <=> \A ix \in NodesByType(graph, "InteractionSpec") : ix.sec)

(* what P4 reports: no api Contract lacks two or more of the six terms *)
C32_P4IffNoWeakContract ==
    ProofsRun => (proofs.P[4] <=> ComputeAPIWeak(graph) = {})

(* C33: _compute_sets and _run_proofs leave the in-memory graph and the store
   as they found them: the steps that run them (the analysis of a pass, the
   proofs of a pass with and without deltas) change neither. *)
ReadOnlyStep == pc \in {"compute", "verify"} \/ (pc = "emitted" /\ Len(deltas) = 0)

C33_SetsAndProofsReadOnly ==
    [][ReadOnlyStep => graph' = graph /\ disk' = disk]_vars

C33_ProvedAfterRepair ==
    /\ pc = "while"
    /\ proofs.bound
    /\ hist.applied # {}
    /\ DOMAIN graph.nodes # {}

(* C34: when a pass has applied its deltas, both endpoints of every edge the
   pass appended to the edge log are nodes of the store. *)
AppendedEdges == {disk'.edgelog[i] : i \in (Len(disk.edgelog) + 1)..Len(disk'.edgelog)}

C34_AppendedEdgesHaveEndpoints ==
    [][pc = "emitted" /\ pc' = "reload"
          => \A e \in AppendedEdges : {e.from, e.to} \subseteq NodeIds(disk')]_vars

------------------------------------------------------------------------------
(***************************************************************************)
(* Another tool rewriting a node file while a pass is between load() and   *)
(* _apply_deltas().                                                        *)
(***************************************************************************)

(* the other tool reads one node file and writes it back with a key of its own *)
ExternalAttributeWrite ==
    /\ pc \in {"compute", "emit", "emitB", "emitC", "emitD", "emitE", "emitF", "emitted"}
    /\ hist.ext_writes < MaxExternalWrites
    /\ \E k \in DOMAIN disk.files :
          /\ disk.files[k].extra = <<>>
          /\ disk' = [disk EXCEPT !.files[k] = Foreign(@)]
    /\ hist' = [hist EXCEPT !.ext_writes = @ + 1]
    /\ UNCHANGED <<graph, gaps, deltas, changed_nodes, iteration, all_passing, proofs,
                   prev_gaps, max_iterations, output, exit_code, pc, run>>

NextRace == Next \/ ExternalAttributeWrite

SpecRace == InitTwo /\ [][NextRace]_vars

(* C35: attributes another tool wrote to a node between this pass's load and
   its apply are still in the stored node after the pass has applied an
   update_node delta for that node. *)
UpdatedIds(ds) == {ds[i].node.id : i \in {j \in 1..Len(ds) : IsUpdateNode(ds[j])}}

C35_ExternalAttributesKept ==
    [][pc = "emitted" /\ pc' = "reload"
          => \A k \in DOMAIN disk.files :
                (disk.files[k].extra = <<"owner">> /\ disk.files[k].id \in UpdatedIds(deltas))
                    => disk'.files[k].extra = <<"owner">>]_vars

(* C36: the deltas one pass emits never hold two add_node deltas with the
   same node id. *)
AddNodeAt(ds) == {i \in 1..Len(ds) : IsAddNode(ds[i])}

C36_NoTwoAddNodeSameId ==
    pc = "emitted" =>
        \A i, j \in AddNodeAt(deltas) : deltas[i].node.id = deltas[j].node.id => i = j

------------------------------------------------------------------------------
(***************************************************************************)
(* repair.py: the name sanitizers and sanitize_relpath, called once per    *)
(* file by process_nodes with one seen map.  A path is the sequence of its *)
(* components (relpath.split(os.sep)), a component a sequence of           *)
(* characters.  In this specification disk holds the --style argument,     *)
(* graph the seen map and output the name_map list.                        *)
(***************************************************************************)

MaxCalls == 3           \* files process_nodes walks over

(* if len(safe) > 120: safe = safe[:100] + "-" + h *)
MaxComponentLen == 120
KeptLen == 100

(* _BAD_CHARS_RE = [^A-Za-z0-9._-], on the characters of the model *)
SafeChars == {"d", "x", ".", "_", "-"}

(* "~%02X" % ord(ch) *)
HexEscape(ch) ==
    CASE ch \in SafeChars -> <<ch>>
      [] ch = ":" -> <<"~", "3", "A">>
      [] ch = " " -> <<"~", "2", "0">>
      [] OTHER -> <<"~", "?", "?">>

(* UNICODE_LOOKALIKES.get(ch, middle dot) for a character of _WIN_FORBIDDEN *)
Lookalike(ch) ==
    CASE ch = ":" -> <<"U+2236">>
      [] ch = "/" -> <<"_">>
      [] OTHER -> <<ch>>

(* str.rstrip(". ") *)
RStrip(s) ==
    LET keep == {i \in 1..Len(s) : s[i] \notin {".", " "}}
    IN IF keep = {} THEN <<>>
       ELSE SubSeq(s, 1, CHOOSE i \in keep : \A j \in keep : j <= i)

(* hashlib.sha256(name.encode("utf-8")).hexdigest()[:8]: one digest per name, taken
   as distinct for distinct names and as no text a sanitizer produces *)
Sha8(name) == <<"#">> \o name

Shortened(safe, name) ==
    IF Len(safe) > MaxComponentLen
    THEN SubSeq(safe, 1, KeptLen) \o <<"-">> \o Sha8(name)
    ELSE safe

sanitize_component_hex(name) ==
    LET base == [i \in 1..Len(name) |-> IF name[i] = "/" THEN "_" ELSE name[i]]
        esc[i \in 0..Len(base)] == IF i = 0 THEN <<>> ELSE esc[i - 1] \o HexEscape(base[i])
        stripped == RStrip(esc[Len(base)])
    IN Shortened(IF stripped = <<>> THEN <<"_">> ELSE stripped, name)

sanitize_component_unicode(name) ==
    LET out[i \in 0..Len(name)] == IF i = 0 THEN <<>> ELSE out[i - 1] \o Lookalike(name[i])
        stripped == RStrip(out[Len(name)])
    IN Shortened(IF stripped = <<>> THEN <<"_">> ELSE stripped, name)

make_sanitizer(style, name) ==
    IF style = "unicode" THEN sanitize_component_unicode(name)
    ELSE sanitize_component_hex(name)

(* key = (os.sep.join(parts[:i]) or ".") + "|" + sp: the unsanitized parent path and
   the sanitized component *)
SeenKey(parts, i, sp) == [dir |-> SubSeq(parts, 1, i - 1), sp |-> sp]

(* the result is the destination path and the seen map as the call leaves it *)
sanitize_relpath(parts, style, seen) ==
    LET step[i \in 0..Len(parts)] ==
            IF i = 0 THEN [seen |-> seen, san_part |-> <<>>]
            ELSE LET prev == step[i - 1]
                     p == parts[i]
                     sp == make_sanitizer(style, p)
                     key == SeenKey(parts, i, sp)
                     clash == key \in DOMAIN prev.seen /\ prev.seen[key] # p
                     named == IF clash THEN sp \o <<"-">> \o Sha8(p) ELSE sp
                 IN [seen |-> [k \in DOMAIN prev.seen \cup {key} |->
                                  IF k = key THEN p ELSE prev.seen[k]],
                     san_part |-> Append(prev.san_part, named)]
    IN [dst |-> step[Len(parts)].san_part, seen |-> step[Len(parts)].seen]

(* file and directory names of the source tree: "d" and "d." sanitize alike *)
Components == {<<"d">>, <<"d", ".">>, <<"x", ":">>}

RelPaths == {<<c>> : c \in Components} \cup (Components \X Components)

NoSeen == [k \in {} |-> <<>>]

InitRepair ==
    /\ disk \in {[style |-> "hex"], [style |-> "unicode"]}
    /\ graph = NoSeen
    /\ gaps = NoGaps
    /\ deltas = <<>>
    /\ changed_nodes = {}
    /\ iteration = 0
    /\ all_passing = FALSE
    /\ proofs = Unbound
    /\ prev_gaps = GapSizes(NoGaps)
    /\ max_iterations = 0
    /\ output = <<>>
    /\ exit_code = -1
    /\ pc = "walk"
    /\ run = 1
    /\ hist = NoHist(disk)

(* process_nodes, one file: dst_rel = sanitize_relpath(src_rel, style, seen);
   name_map.append({"src": src_rel, "dst": dst_rel}) *)
ProcessFile ==
    /\ pc = "walk"
    /\ Len(output) < MaxCalls
    /\ \E src_rel \in RelPaths :
          LET r == sanitize_relpath(src_rel, disk.style, graph)
          IN /\ graph' = r.seen
             /\ output' = Append(output, [src |-> src_rel, dst |-> r.dst])
    /\ UNCHANGED <<disk, gaps, deltas, changed_nodes, iteration, all_passing, proofs,
                   prev_gaps, max_iterations, exit_code, pc, run, hist>>

NextRepair == ProcessFile

SpecRepair == InitRepair /\ [][NextRepair]_vars

(* C37: over the calls of sanitize_relpath that share one seen map, a source
   path always gets the same destination path, and two different source
   paths never get the same destination path. *)
C37_StableInjectiveNames ==
    \A i, j \in 1..Len(output) :
        output[i].src = output[j].src <=> output[i].dst = output[j].dst

------------------------------------------------------------------------------
(***************************************************************************)
(* complete_planning_iteration.py: CompletenessIteration on its own        *)
(* PlanGraph.  The script saves every node it changes and never reloads;   *)
(* edges go to edges.ndjson only.  In this specification changed_nodes     *)
(* holds self.changes_made; a node's sec and obs are TRUE when the dict    *)
(* holds all three keys the script asks for.  Keys no step of the script   *)
(* reads (checklist, owner, est_h, ...) are left out of the nodes.         *)
(***************************************************************************)

(* coverage >= 0.95 *)
CoverageNum == 95
CoverageDen == 100

(* proofs['P10']: covered >= 14 *)
CoreFloor == 14

(* if passing_count >= 9 *)
TargetPassing == 9

CiState == [files |-> disk.files, edgelog |-> disk.edgelog, nodes |-> graph.nodes,
            node_by_type |-> graph.node_by_type, changes |-> changed_nodes]

CiGraph(st) == [nodes |-> st.nodes, node_by_type |-> st.node_by_type, edges |-> graph.edges]

(* self.graph.save_node(node_id, node) *)
CiSave(st, n) ==
    LET r == SaveNode([files |-> st.files, nodes |-> st.nodes,
                       node_by_type |-> st.node_by_type], n.id, n)
    IN [st EXCEPT !.files = r.files, !.nodes = r.nodes, !.node_by_type = r.node_by_type]

(* a loop whose iterations each change and save their own node only, and count it *)
CiSaveEach(st, ns) ==
    LET keys == {NodeFile(n.id, n) : n \in ns}
    IN [st EXCEPT
          !.files = [k \in DOMAIN st.files \cup keys |->
                        IF k \in keys THEN CHOOSE n \in ns : NodeFile(n.id, n) = k
                        ELSE st.files[k]],
          !.nodes = [x \in DOMAIN st.nodes |->
                        IF \E n \in ns : n.id = x THEN CHOOSE n \in ns : n.id = x
                        ELSE st.nodes[x]],
          !.changes = @ + Cardinality(ns)]

(* with open(edges_file, 'a') as f: f.write(json.dumps({...}) + "\n") *)
CiEdge(st, from, to, type) ==
    [st EXCEPT !.edgelog = Append(@, [from |-> from, to |-> to, type |-> type])]

CiChanged(st) == [st EXCEPT !.changes = @ + 1]

CiNodes(st, node_type) == NodesByType(CiGraph(st), node_type)

CiIds(st, node_type) == IdsByType(CiGraph(st), node_type)

(* security = ix.get("sec") or ix.get("security", {});
   security and all(k in security for k in ["authZ", "least_priv", "pii"]) *)
SecurityComplete(ix) == ix.sec

(* obs = ix.get("obs") or ix.get("observability", {}), with logs, metrics and span *)
ObservabilityComplete(ix) == ix.obs \/ ix.observability

(* _enhance_ix_security *)
EnhanceIxSecurity(st) ==
    CiSaveEach(st, {[ix EXCEPT !.sec = TRUE] :
                        ix \in {x \in CiNodes(st, "InteractionSpec") : ~SecurityComplete(x)}})

(* _enhance_ix_observability *)
EnhanceIxObservability(st) ==
    CiSaveEach(st, {[ix EXCEPT !.obs = TRUE] :
                        ix \in {x \in CiNodes(st, "InteractionSpec") : ~ObservabilityComplete(x)}})

(* operations = ["create", "read", "update", "delete"], narrowed by the statement *)
Operations(stmt) ==
    IF Says(stmt, "read") \/ Says(stmt, "get") THEN <<"read">>
    ELSE IF Says(stmt, "write") \/ Says(stmt, "store") THEN <<"create", "update">>
    ELSE IF Says(stmt, "delete") \/ Says(stmt, "remove") THEN <<"delete">>
    ELSE <<"create", "read", "update", "delete">>

OperationSuffix(operation) ==
    CASE operation = "create" -> "-api-create-fresh-under-ok"
      [] operation = "read" -> "-api-read-fresh-under-ok"
      [] operation = "update" -> "-api-update-fresh-under-ok"
      [] operation = "delete" -> "-api-delete-fresh-under-ok"

OperationStmt(operation) ==
    CASE operation = "create" -> "Create operation via API"
      [] operation = "read" -> "Read operation via API"
      [] operation = "update" -> "Update operation via API"
      [] operation = "delete" -> "Delete operation via API"

(* ix_id = f"ix:{cs_id.replace('change:', '').replace(':', '-')}-api-{operation}-fresh-under-ok" *)
CiIxId(cs_id, operation) ==
    <<"ix:">> \o ReplaceColons(Remove(cs_id, "change:")) \o <<OperationSuffix(operation)>>

CiInteractionSpec(cs_id, operation) ==
    [BlankNode(CiIxId(cs_id, operation), "InteractionSpec") EXCEPT
        !.stmt = <<OperationStmt(operation)>>, !.obs = TRUE, !.sec = TRUE,
        !.test = [mocks |-> TRUE, acc |-> TRUE],
        !.depends_on = <<<<"contract:api-">> \o Remove(cs_id, "change:")>>]

(* _create_ix_for_changespec(changespec): cs_id names the dict, which every caller
   took from the graph *)
CreateIxForChangespec(st, cs_id) ==
    LET ops == Operations(st.nodes[cs_id].stmt)
        made[i \in 0..Len(ops)] ==
            IF i = 0 THEN [st |-> st, ix_list |-> <<>>]
            ELSE LET ix == CiInteractionSpec(cs_id, ops[i])
                     m == made[i - 1]
                 IN IF HasNode(m.st.nodes, ix.id) THEN m
                    ELSE [st |-> CiChanged(CiEdge(CiSave(m.st, ix), ix.id, cs_id, "depends_on")),
                          ix_list |-> Append(m.ix_list, ix.id)]
        done == made[Len(ops)]
    IN IF done.ix_list = <<>> THEN done.st
       ELSE CiSave(done.st, [done.st.nodes[cs_id] EXCEPT !.ix = @ \o done.ix_list])

CiValidIx(st, cs) == {ix_id \in Range(cs.ix) : HasNode(st.nodes, ix_id)}

RECURSIVE CompleteIxLoop(_, _)
CompleteIxLoop(st, order) ==
    IF order = <<>> THEN st
    ELSE LET cs == st.nodes[Head(order)]
         IN CompleteIxLoop(IF cs.simple \/ CiValidIx(st, cs) # {} THEN st
                           ELSE CreateIxForChangespec(st, cs.id),
                           Tail(order))

(* _add_tests_to_scenarios, one Scenario *)
AddTestsStep(st, scenario_id) ==
    LET scenario == st.nodes[scenario_id]
        test_id == <<"test:">> \o Remove(scenario_id, "scenario:")
        test == [BlankNode(test_id, "Test") EXCEPT !.stmt = <<"Test suite for">> \o scenario.stmt]
    IN IF scenario.tests # <<>> \/ HasNode(st.nodes, test_id) THEN st
       ELSE CiChanged(CiEdge(CiSave(CiSave(st, test),
                                    [scenario EXCEPT !.tests = @ \o <<test_id>>]),
                             scenario_id, test_id, "traces_to"))

RECURSIVE AddTestsLoop(_, _)
AddTestsLoop(st, order) ==
    IF order = <<>> THEN st ELSE AddTestsLoop(AddTestsStep(st, Head(order)), Tail(order))

(* _complete_data_contracts: the enhancements, in the order the code appends them *)
LifecycleEnhancements(stmt) ==
    (IF Says(stmt, "schema") THEN <<>> ELSE <<"schema defined">>)
    \o (IF Says(stmt, "indices") \/ Says(stmt, "index") THEN <<>> ELSE <<"indices defined">>)
    \o (IF Says(stmt, "migration") \/ Says(stmt, "backfill") THEN <<>>
        ELSE <<"migration/backfill defined">>)
    \o (IF Says(stmt, "retention") THEN <<>> ELSE <<"retention defined">>)
    \o (IF Says(stmt, "pii") THEN <<>> ELSE <<"region/PII defined">>)

IsDataContract(c) == HasData(c.id) \/ Says(c.stmt, "data") \/ Says(c.stmt, "schema")

CompleteDataContracts(st) ==
    CiSaveEach(st, {[c EXCEPT !.stmt = @ \o LifecycleEnhancements(c.stmt)] :
                        c \in {x \in CiNodes(st, "Contract") :
                                  IsDataContract(x) /\ LifecycleEnhancements(x.stmt) # <<>>}})

(* _add_versioning_to_contracts *)
AddVersioningToContracts(st) ==
    CiSaveEach(st, {[c EXCEPT !.versioning = TRUE,
                              !.stmt = IF Says(c.stmt, "version") THEN @
                                       ELSE @ \o <<"(versioning: semver:minor)">>] :
                        c \in {x \in CiNodes(st, "Contract") : ~x.versioning}})

(* _add_rollout_flags *)
AddRolloutFlags(st) ==
    CiSaveEach(st, {[cs EXCEPT !.rollout_flag = TRUE] :
                        cs \in {x \in CiNodes(st, "ChangeSpec") : ~x.rollout_flag}})

(* CompletenessIteration._run_proofs *)

(* count / total >= 0.95 if total else 0 *)
Covered(count, total) == total > 0 /\ CoverageDen * count >= CoverageNum * total

(* P2, a Scenario without requirements: the Requirement req:<slug>-functional *)
FunctionalRequirement(st, scenario_id) ==
    LET s == st.nodes[scenario_id]
        req_id == <<"req:">> \o Remove(scenario_id, "scenario:") \o <<"-functional">>
        req == [BlankNode(req_id, "Requirement") EXCEPT
                   !.stmt = <<"Functional requirement for">> \o s.stmt]
    IN IF s.requirements # <<>> THEN [st |-> st, reqs |-> s.requirements]
       ELSE IF HasNode(st.nodes, req_id) THEN [st |-> st, reqs |-> <<req_id>>]
       ELSE [st |-> CiChanged(CiEdge(CiSave(CiSave(st, req),
                                            [s EXCEPT !.requirements = @ \o <<req_id>>]),
                                     scenario_id, req_id, "traces_to")),
             reqs |-> <<req_id>>]

(* P2 and P9, a Requirement without change_specs: the ChangeSpec change:<slug> *)
CiChangeSpec(req) ==
    [BlankNode(<<"change:">> \o Remove(req.id, "req:"), "ChangeSpec") EXCEPT
        !.stmt = <<"Implement">> \o req.stmt, !.implements = <<req.id>>,
        !.rollout_flag = TRUE]

ChangeSpecFor(st, req_id) ==
    LET req == st.nodes[req_id]
        cs == CiChangeSpec(req)
    IN IF HasNode(st.nodes, cs.id) THEN st
       ELSE CiChanged(CiSave(CiSave(st, cs), [req EXCEPT !.change_specs = @ \o <<cs.id>>]))

(* valid_ix = [ix_id for ix_id in ix_list if self.graph.has_node(ix_id)], re-checked
   after _create_ix_for_changespec *)
Rechecked(made, cs_id) == [st |-> made, has_ix |-> CiValidIx(made, made.nodes[cs_id]) # {}]

(* P2: for cs_id in cs_list, until a ChangeSpec is simple or has an InteractionSpec *)
P2ChangeSpecs(st, cs_list) ==
    LET walk[i \in 0..Len(cs_list)] ==
            IF i = 0 THEN [st |-> st, has_ix |-> FALSE]
            ELSE LET w == walk[i - 1]
                     cs_id == cs_list[i]
                 IN IF w.has_ix \/ ~HasNode(w.st.nodes, cs_id) THEN w
                    ELSE IF w.st.nodes[cs_id].simple \/ CiValidIx(w.st, w.st.nodes[cs_id]) # {}
                         THEN [w EXCEPT !.has_ix = TRUE]
                    ELSE Rechecked(CreateIxForChangespec(w.st, cs_id), cs_id)
    IN walk[Len(cs_list)]

(* has_ix stays set once a Requirement of the Scenario gave an InteractionSpec *)
StillHasIx(had, r) == [r EXCEPT !.has_ix = had \/ @]

(* P2, one Requirement of the Scenario: cs_list = req.get("change_specs", []), or the
   ChangeSpec made for it *)
P2Requirement(st, req_id) ==
    IF st.nodes[req_id].change_specs = <<>>
    THEN P2ChangeSpecs(ChangeSpecFor(st, req_id), <<CiChangeSpec(st.nodes[req_id]).id>>)
    ELSE P2ChangeSpecs(st, st.nodes[req_id].change_specs)

(* P2: for req_id in reqs; a break leaves the inner loop only *)
P2Requirements(f) ==
    LET walk[i \in 0..Len(f.reqs)] ==
            IF i = 0 THEN [st |-> f.st, has_ix |-> FALSE]
            ELSE IF ~HasNode(walk[i - 1].st.nodes, f.reqs[i]) THEN walk[i - 1]
            ELSE StillHasIx(walk[i - 1].has_ix, P2Requirement(walk[i - 1].st, f.reqs[i]))
    IN walk[Len(f.reqs)]

(* if has_ix: scenarios_with_ix += 1 *)
Counted(with_ix, scenario_id, r) ==
    [st |-> r.st, with_ix |-> with_ix \cup (IF r.has_ix THEN {scenario_id} ELSE {})]

RECURSIVE P2Loop(_, _)
(* for s in scenarios: the state and the Scenarios counted in scenarios_with_ix *)
P2Loop(acc, order) ==
    IF order = <<>> THEN acc
    ELSE P2Loop(Counted(acc.with_ix, Head(order),
                        P2Requirements(FunctionalRequirement(acc.st, Head(order)))),
                Tail(order))

(* P9, one Requirement *)
P9Requirement(acc, req_id) ==
    LET node == acc.st.nodes[req_id]
        valid_cs == SelectSeq(node.change_specs, LAMBDA cs_id : HasNode(acc.st.nodes, cs_id))
        lacking == {i \in 1..Len(valid_cs) :
                       /\ ~acc.st.nodes[valid_cs[i]].simple
                       /\ CiValidIx(acc.st, acc.st.nodes[valid_cs[i]]) = {}}
    IN IF valid_cs = <<>> THEN [acc EXCEPT !.st = ChangeSpecFor(acc.st, req_id)]
       ELSE [acc EXCEPT !.incomplete = @ + Cardinality(lacking)]

(* if not valid_ix: incomplete += 1 *)
StillIncomplete(incomplete, r) ==
    [st |-> r.st, incomplete |-> incomplete + (IF r.has_ix THEN 0 ELSE 1)]

(* P9, one ChangeSpec *)
P9ChangeSpec(acc, cs_id) ==
    LET node == acc.st.nodes[cs_id]
    IN IF node.simple \/ CiValidIx(acc.st, node) # {} THEN acc
       ELSE StillIncomplete(acc.incomplete,
                            Rechecked(CreateIxForChangespec(acc.st, cs_id), cs_id))

RECURSIVE P9Requirements(_, _)
P9Requirements(acc, order) ==
    IF order = <<>> THEN acc
    ELSE P9Requirements(P9Requirement(acc, Head(order)), Tail(order))

RECURSIVE P9ChangeSpecs(_, _)
P9ChangeSpecs(acc, order) ==
    IF order = <<>> THEN acc
    ELSE P9ChangeSpecs(P9ChangeSpec(acc, Head(order)), Tail(order))

(* P10: covered >= 14 or req_covered >= 14 *)
AreasCovered(nodes) == Cardinality({area \in CoreAreas : \E n \in nodes : Says(n.stmt, area)})

(* P3: 'data' in the id or the statement; all five keywords in the statement *)
CiDataContracts(st) == {c \in CiNodes(st, "Contract") : HasData(c.id) \/ Says(c.stmt, "data")}

LifecycleComplete(c) ==
    \A kw \in {"schema", "indices", "migration", "retention", "pii"} : Says(c.stmt, kw)

(* P3..P8 on the graph P2 left, P1 as computed before P2 *)
ProofsOnGraph(p1, p2, st) ==
    LET ix_list == CiNodes(st, "InteractionSpec")
        contracts == CiNodes(st, "Contract")
        change_specs == CiNodes(st, "ChangeSpec")
        scenarios == CiNodes(st, "Scenario")
    IN << p1,
          p2,
          Covered(Cardinality({c \in CiDataContracts(st) : LifecycleComplete(c)}),
                  Cardinality(CiDataContracts(st))),
          Covered(Cardinality({ix \in ix_list : SecurityComplete(ix)}), Cardinality(ix_list)),
          Covered(Cardinality({s \in scenarios : s.tests # <<>>}), Cardinality(scenarios)),
          Covered(Cardinality({ix \in ix_list : ObservabilityComplete(ix)}),
                  Cardinality(ix_list)),
          /\ Covered(Cardinality({c \in contracts : c.versioning}), Cardinality(contracts))
          /\ Covered(Cardinality({cs \in change_specs : cs.rollout_flag}),
                     Cardinality(change_specs)),
          \A ix \in ix_list : ix.status # "Blocked" >>

(* P9 and P10, after P2: total is counted before the loop; the Scenarios are visited
   first, then the Requirements, then the ChangeSpecs there are by then *)
P9Outcomes(st) ==
    LET total == Cardinality(CiIds(st, "Scenario")) + Cardinality(CiIds(st, "Requirement"))
                    + Cardinality(CiIds(st, "ChangeSpec"))
        lone == Cardinality({s \in CiNodes(st, "Scenario") : s.requirements = <<>>})
        after_reqs == {P9Requirements([st |-> st, incomplete |-> lone], r_order) :
                          r_order \in SetToSeqs(CiIds(st, "Requirement"))}
        after_cs == UNION {{P9ChangeSpecs(a, c_order) :
                               c_order \in SetToSeqs(CiIds(a.st, "ChangeSpec"))} :
                           a \in after_reqs}
    IN {[st |-> a.st,
         p9 |-> Covered(total - a.incomplete, total),
         p10 |-> \/ AreasCovered(CiNodes(a.st, "Scenario")) >= CoreFloor
                 \/ AreasCovered(CiNodes(a.st, "Requirement")) >= CoreFloor] : a \in after_cs}

(* the proofs in the order the code computes them, for every order in which the
   type lists can give the nodes: the graph afterwards and the proofs dict *)
CiRunProofs(st) ==
    LET p1 == \A nt \in {"Component", "Contract", "InteractionSpec"} : CiNodes(st, nt) # {}
        scenario_ids == CiIds(st, "Scenario")
        after_p2 == {P2Loop([st |-> st, with_ix |-> {}], s_order) :
                        s_order \in SetToSeqs(scenario_ids)}
    IN UNION {{[st |-> o.st,
                proofs |-> [bound |-> TRUE,
                            P |-> ProofsOnGraph(p1,
                                                Covered(Cardinality(a.with_ix),
                                                        Cardinality(scenario_ids)),
                                                a.st) \o <<o.p9, o.p10>>,
                            details |-> NoGaps]] : o \in P9Outcomes(a.st)} : a \in after_p2}

(* The loop of iterate_until_complete, one action per statement *)

CiStores ==
    {StoreOf(ns) : ns \in SUBSET {ScenarioA, RequirementA, ChangeSpecA, ContractA,
                                  BlankNode(<<"contract:data-", "a">>, "Contract"),
                                  IxBare, HandComponent}}

InitIterate ==
    /\ disk \in CiStores
    /\ graph \in Load(disk)
    /\ gaps = NoGaps
    /\ deltas = <<>>
    /\ changed_nodes = 0
    /\ iteration = 0
    /\ all_passing = FALSE
    /\ proofs = Unbound
    /\ prev_gaps = GapSizes(NoGaps)
    /\ max_iterations \in Budgets
    /\ output = NoOutput
    /\ exit_code = -1
    /\ pc = "for"
    /\ run = 1
    /\ hist = NoHist(disk)

(* what a step of the loop body leaves: the store, the graph and changes_made *)
CiStep(st, next_pc) ==
    /\ disk' = [files |-> st.files, edgelog |-> st.edgelog]
    /\ graph' = [graph EXCEPT !.nodes = st.nodes, !.node_by_type = st.node_by_type]
    /\ changed_nodes' = st.changes
    /\ pc' = next_pc

(* for iteration in range(1, max_iterations + 1): self.changes_made = 0 *)
NextIteration ==
    /\ pc = "for"
    /\ IF iteration < max_iterations
       THEN iteration' = iteration + 1 /\ changed_nodes' = 0 /\ pc' = "security"
       ELSE iteration' = iteration /\ changed_nodes' = changed_nodes /\ pc' = "exhausted"
    /\ UNCHANGED <<disk, graph, gaps, deltas, all_passing, proofs, prev_gaps,
                   max_iterations, output, exit_code, run, hist>>

IxSecurity ==
    /\ pc = "security"
    /\ CiStep(EnhanceIxSecurity(CiState), "observability")
    /\ UNCHANGED <<gaps, deltas, iteration, all_passing, proofs, prev_gaps,
                   max_iterations, output, exit_code, run, hist>>

IxObservability ==
    /\ pc = "observability"
    /\ CiStep(EnhanceIxObservability(CiState), "complete_ix")
    /\ UNCHANGED <<gaps, deltas, iteration, all_passing, proofs, prev_gaps,
                   max_iterations, output, exit_code, run, hist>>

CompleteIx ==
    /\ pc = "complete_ix"
    /\ \E order \in SetToSeqs(CiIds(CiState, "ChangeSpec")) :
          CiStep(CompleteIxLoop(CiState, order), "tests")
    /\ UNCHANGED <<gaps, deltas, iteration, all_passing, proofs, prev_gaps,
                   max_iterations, output, exit_code, run, hist>>

AddTests ==
    /\ pc = "tests"
    /\ \E order \in SetToSeqs(CiIds(CiState, "Scenario")) :
          CiStep(AddTestsLoop(CiState, order), "data_contracts")
    /\ UNCHANGED <<gaps, deltas, iteration, all_passing, proofs, prev_gaps,
                   max_iterations, output, exit_code, run, hist>>

DataContracts ==
    /\ pc = "data_contracts"
    /\ CiStep(CompleteDataContracts(CiState), "versioning")
    /\ UNCHANGED <<gaps, deltas, iteration, all_passing, proofs, prev_gaps,
                   max_iterations, output, exit_code, run, hist>>

Versioning ==
    /\ pc = "versioning"
    /\ CiStep(AddVersioningToContracts(CiState), "rollout_flags")
    /\ UNCHANGED <<gaps, deltas, iteration, all_passing, proofs, prev_gaps,
                   max_iterations, output, exit_code, run, hist>>

RolloutFlags ==
    /\ pc = "rollout_flags"
    /\ CiStep(AddRolloutFlags(CiState), "proofs")
    /\ UNCHANGED <<gaps, deltas, iteration, all_passing, proofs, prev_gaps,
                   max_iterations, output, exit_code, run, hist>>

(* proofs = self._run_proofs(); all_passing = all(p.get('passed', False) ...) *)
Proofs ==
    /\ pc = "proofs"
    /\ \E o \in CiRunProofs(CiState) :
          /\ CiStep(o.st, "check")
          /\ proofs' = o.proofs
          /\ all_passing' = AllPassing(o.proofs)
    /\ UNCHANGED <<gaps, deltas, iteration, prev_gaps, max_iterations, output, exit_code,
                   run, hist>>

PassingCount(p) == Cardinality({i \in 1..10 : p.P[i]})

(* if passing_count >= 9: SUCCESS, break; if self.changes_made == 0: WARNING, break *)
CheckDone ==
    /\ pc = "check"
    /\ pc' = IF PassingCount(proofs) >= TargetPassing THEN "success"
             ELSE IF changed_nodes = 0 THEN "stalled"
             ELSE "for"
    /\ UNCHANGED <<disk, graph, gaps, deltas, changed_nodes, iteration, all_passing, proofs,
                   prev_gaps, max_iterations, output, exit_code, run, hist>>

(* return proofs: UnboundLocalError when the loop body never ran *)
ReturnProofs ==
    /\ pc \in {"success", "stalled", "exhausted"}
    /\ IF proofs.bound
       THEN /\ output' = [NoOutput EXCEPT !.returned = TRUE, !.proofs = proofs]
            /\ pc' = "returned"
       ELSE /\ output' = output
            /\ pc' = "raised"
    /\ hist' = [hist EXCEPT !.fail_order = <<pc>>]
    /\ UNCHANGED <<disk, graph, gaps, deltas, changed_nodes, iteration, all_passing, proofs,
                   prev_gaps, max_iterations, exit_code, run>>

NextIterate ==
    \/ NextIteration
    \/ IxSecurity
    \/ IxObservability
    \/ CompleteIx
    \/ AddTests
    \/ DataContracts
    \/ Versioning
    \/ RolloutFlags
    \/ Proofs
    \/ CheckDone
    \/ ReturnProofs

SpecIterate == InitIterate /\ [][NextIterate]_vars

(* C38: iterate_until_complete goes on, within max_iterations and as long as an
   iteration makes changes, until all ten proofs pass: it stops as successful
   only with every proof passing, and it stops without success only when the
   budget is used up or the last iteration changed nothing. *)
C38_SuccessMeansAllPass ==
    /\ pc = "success" => AllPassing(proofs)
    /\ pc = "stalled" => changed_nodes = 0
    /\ pc = "exhausted" => iteration = max_iterations

====
